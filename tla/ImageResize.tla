----------------------------- MODULE ImageResize -----------------------------
(***************************************************************************)
(* GET /api/images/resize (routers/images.py): the checks in the order     *)
(* they are made, and the arithmetic of the side that is not asked for.    *)
(* 0 stands for a parameter that is not given.                             *)
(***************************************************************************)
EXTENDS Naturals

CONSTANTS
  MAX_DIMENSION,      \* _MAX_DIMENSION, 2000 in the code
  MAX_SOURCE_BYTES,   \* _MAX_SOURCE_BYTES
  MAX_IMAGE_PIXELS,   \* _MAX_IMAGE_PIXELS
  MaxSide             \* bound: sides of a source image

VARIABLES
  asked,    \* the request: allowed, width, height
  source,   \* what the URL serves: bytes, type, readable, width, height, writable
  answer    \* status and size of the last answer; 0 before it

vars == <<asked, source, answer>>

NoAnswer == [status |-> 0, width |-> 0, height |-> 0]
Original == [status |-> 200, width |-> 0, height |-> 0]
Refuse(status) == [NoAnswer EXCEPT !.status = status]
Types == {"image/png", "text/html"}

\* Query(gt=0, le=_MAX_DIMENSION); allowed is what _is_allowed_url says of the url.
Asked == [allowed : BOOLEAN, width : 0 .. MAX_DIMENSION, height : 0 .. MAX_DIMENSION]

\* fetched is false for a URL that answers an error or none; readable for bytes Pillow
\* recognises; writable for a mode the declared type's encoder accepts.
Source == [fetched : BOOLEAN, bytes : {MAX_SOURCE_BYTES, MAX_SOURCE_BYTES + 1}, type : Types,
           readable : BOOLEAN, writable : BOOLEAN, width : 1 .. MaxSide, height : 1 .. MaxSide]
Plain == [fetched |-> TRUE, bytes |-> MAX_SOURCE_BYTES, type |-> "image/png", readable |-> TRUE,
          writable |-> TRUE, width |-> 1, height |-> 1]

\* A source is odd in one way or plain: the checks are made one after the other.
Sources ==
  {s \in Source : s.fetched /\ s.readable /\ s.bytes = MAX_SOURCE_BYTES /\ s.type = "image/png"}
  \cup {[Plain EXCEPT !.fetched = FALSE], [Plain EXCEPT !.bytes = MAX_SOURCE_BYTES + 1],
        [Plain EXCEPT !.type = "text/html"], [Plain EXCEPT !.readable = FALSE]}

Init == asked \in Asked /\ source \in Sources /\ answer = NoAnswer

\* int(original * given / given_of) of the side that was left out.
Swapped(side, given, other) == (side * other) \div given
Scaled(side, given, other) == (side * given) \div other

Width  == IF asked.width = 0 THEN Scaled(source.width, asked.height, source.height)
          ELSE asked.width
Height == IF asked.height = 0 THEN Scaled(source.height, asked.width, source.width)
          ELSE asked.height

\* image.resize refuses a side of 0; save refuses a mode the format lacks.
Resized(w, h) ==
  IF w = 0 \/ h = 0 \/ ~source.writable THEN Refuse(500)
  ELSE [status |-> 200, width |-> w, height |-> h]

\* _reject_oversized_pixels
Bomb == source.width * source.height > MAX_IMAGE_PIXELS

resize_image ==
  CASE ~asked.allowed                    -> Refuse(400)
    [] asked.allowed /\ ~source.fetched  -> Refuse(502)
    [] asked.allowed /\ source.bytes > MAX_SOURCE_BYTES -> Refuse(413)
    [] asked.allowed /\ source.type = "text/html" -> Refuse(415)
    [] OTHER ->
         IF asked.width = 0 /\ asked.height = 0 THEN Original
         ELSE IF ~source.readable THEN Refuse(415)
         ELSE IF Bomb THEN Refuse(413) ELSE Resized(Width, Height)

Answer == answer = NoAnswer /\ answer' = resize_image /\ UNCHANGED <<asked, source>>
Idle == answer # NoAnswer /\ UNCHANGED vars
Next == Answer \/ Idle

Spec == Init /\ [][Next]_vars

-----------------------------------------------------------------------------
(* Properties *)

\* Type correctness; a picture that is sent has two sides.
TypeOK ==
  /\ asked \in Asked /\ source \in Source
  /\ answer.status \in {0, 200, 400, 413, 415, 500, 502}
  /\ answer.width > 0 <=> answer.height > 0

\* When one side is asked for, the other keeps the proportions of the source to within
\* one pixel, rounded down (images.py:82-86, "비율 유지").
AspectKept ==
  answer.width > 0 =>
    /\ asked.height = 0 => /\ answer.width = asked.width
                           /\ answer.height * source.width <= source.height * asked.width
                           /\ source.height * asked.width < (answer.height + 1) * source.width
    /\ asked.width = 0 => /\ answer.height = asked.height
                          /\ answer.width * source.height <= source.width * asked.height
                          /\ source.width * asked.height < (answer.width + 1) * source.height
=============================================================================
