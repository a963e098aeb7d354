----------------------------- MODULE VideoPrompt -----------------------------
(***************************************************************************)
(* The prompt a run sends to the provider: build_openai_video_prompt and   *)
(* build_fal_payload (services/video_generation_provider.py:343-512).      *)
(*                                                                         *)
(* A text is represented by its length after normalize_prompt_text, 0      *)
(* being a blank or missing one, which keeps its place in the lists here;  *)
(* the lengths of labels and of the fixed sentences are those of the       *)
(* source.                                                                 *)
(***************************************************************************)
EXTENDS Naturals, Sequences, FiniteSets

CONSTANTS
  TextLengths,    \* lengths the story's texts take in a run
  MaxListed       \* bound: scenes of an input

VARIABLES snapshot, prompt

vars == <<snapshot, prompt>>

MAX_OPENAI_VIDEO_PROMPT_LENGTH == 2800
NotBuilt == [status |-> "not_built", parts |-> {}, length |-> 0, whole |-> {}]
Refused == [NotBuilt EXCEPT !.status = "provider_error"]

Short == 40      \* length of the texts a run does not vary

Lists(S) == UNION {[1 .. n -> S] : n \in 0 .. MaxListed}

\* provider_prompt, story.summary (the draft, which every chat turn lengthens) and the lists
\* vary; the story's other fields are all there or all missing.
Snapshots ==
  [provider : {"openai", "fal"}, provider_prompt : TextLengths, summary : TextLengths,
   others : {0, Short}, locations : {<<>>, <<0, 9>>, <<9, 9, 9, 9, 0, 9>>},
   scenes : Lists({0, 2}) \cup {<<1, 2>>}, assets : {0, 200}]

Init == snapshot \in Snapshots /\ prompt = NotBuilt

-----------------------------------------------------------------------------
(* Lines *)

Part(name, length) == [name |-> name, length |-> length]

\* Where each text of a list ends when they are joined by a separator: a blank one is left out,
\* and with it its separator.
Ends(lengths, separator) ==
  LET end[n \in 0 .. Len(lengths)] ==
        IF n = 0 THEN 0
        ELSE LET before == end[n - 1]
             IN IF lengths[n] = 0 THEN before
                ELSE IF before = 0 THEN lengths[n] ELSE before + separator + lengths[n]
  IN end
Joined(lengths, separator) == Ends(lengths, separator)[Len(lengths)]

\* label + ": " + text, or no line
optional_prompt_line(name, label, text) ==
  Part(name, IF text = 0 THEN 0 ELSE label + 2 + text)

\* ", "; the limit is taken before blanks are dropped
join_prompt_values(values) ==
  Ends(values, 2)[IF Len(values) < 5 THEN Len(values) ELSE 5]

\* The scene with detail has its order, emotion, camera and narration as well: 0 is a scene
\* without any description.
scene_blueprint_text(scene) ==
  CASE scene = 0 -> 0
    [] scene = 1 -> Short
    [] scene = 2 -> 3 + Joined(<<Short, 9 + 5, 8 + 5, 24 + Short>>, 3)

\* The first four scenes that say something: a scene behind four others is as good as blank.
extract_scene_blueprint(scenes) ==
  LET texts == [i \in DOMAIN scenes |-> scene_blueprint_text(scenes[i])]
  IN [i \in DOMAIN scenes |->
        IF Cardinality({k \in 1 .. i - 1 : texts[k] > 0}) < 4 THEN texts[i] ELSE 0]

\* "- " before each line, a newline between them
optional_prompt_block(name, label, texts) ==
  LET lines == [i \in DOMAIN texts |-> IF texts[i] = 0 THEN 0 ELSE 2 + texts[i]]
  IN Part(name, IF \A i \in DOMAIN texts : texts[i] = 0 THEN 0 ELSE label + 2 + Joined(lines, 1))

-----------------------------------------------------------------------------
(* The prompt *)

Intro(story) == <<Part("premium", 73), Part("core_story", 12 + story.provider_prompt)>>

Material(story) ==
  <<optional_prompt_line("title", 5, story.others),
    optional_prompt_line("logline", 7, story.others),
    optional_prompt_line("summary", 13, story.summary),
    optional_prompt_line("protagonist", 11, story.others),
    optional_prompt_line("time_period", 11, story.others),
    optional_prompt_line("locations", 9, join_prompt_values(story.locations)),
    optional_prompt_line("emotional_arc", 13, story.others),
    optional_prompt_line("ending_tone", 11, story.others),
    optional_prompt_line("visual_style", 12, Short),
    optional_prompt_line("music", 20, IF story.others = 0 THEN 0 ELSE 3),
    optional_prompt_block("scenes", 15, extract_scene_blueprint(story.scenes)),
    optional_prompt_line("assets", 24, story.assets)>>

Constraints ==
  <<Part("intent", 161), Part("continuity", 164), Part("safety", 261),
    Part("cinematography", 231), Part("lighting", 186), Part("motion", 163),
    Part("quality", 266)>>

Parts(story) == Intro(story) \o Material(story) \o Constraints
Lengths(parts) == [i \in DOMAIN parts |-> parts[i].length]

\* truncate_prompt: prompt[: max - 1].rstrip() and the ellipsis.  A cut right after a line's
\* newline loses the newline too; that the cut may follow a space is left out.
CutByBytes(length, ends, max) ==
  IF 3 * length <= max THEN [length |-> length, kept |-> length]
  ELSE [length |-> max \div 3, kept |-> max \div 3]
truncate_prompt(length, ends, max) ==
  IF length <= max THEN [length |-> length, kept |-> length]
  ELSE IF max - 2 \in ends THEN [length |-> max - 1, kept |-> max - 2]
  ELSE [length |-> max, kept |-> max - 1]

\* The parts that are not blank, joined by newlines; whole names those the cut leaves alone.
build_openai_video_prompt(story) ==
  LET parts  == Parts(story)
      filled == {i \in DOMAIN parts : parts[i].length > 0}
      ends   == Ends(Lengths(parts), 1)
      cut    == truncate_prompt(ends[Len(parts)], {ends[i] : i \in filled},
                                MAX_OPENAI_VIDEO_PROMPT_LENGTH)
  IN [status |-> "built", parts |-> {parts[i].name : i \in filled}, length |-> cut.length,
      whole |-> {parts[i].name : i \in {k \in filled : ends[k] <= cut.kept}}]

\* build_fal_payload sends the bare prompt, uncut.
build_fal_payload(story) ==
  [status |-> "built", parts |-> {"core_story"},
   length |-> story.provider_prompt, whole |-> {"core_story"}]

Build ==
  /\ prompt = NotBuilt
  /\ prompt' = IF snapshot.provider_prompt = 0 THEN Refused
               ELSE IF snapshot.provider = "openai" THEN build_openai_video_prompt(snapshot)
               ELSE build_fal_payload(snapshot)
  /\ UNCHANGED snapshot
Idle == prompt # NotBuilt /\ UNCHANGED vars
Next == Build \/ Idle

Spec == Init /\ [][Next]_vars

-----------------------------------------------------------------------------
(* Properties *)

Built == prompt.status = "built" /\ snapshot.provider = "openai"

\* The prompt never exceeds the provider's limit, however the lines fall around the cut.
TypeOK ==
  /\ prompt.status \in {"not_built", "built", "provider_error"}
  /\ Built => prompt.length <= MAX_OPENAI_VIDEO_PROMPT_LENGTH

\* The prompt's purpose and the story itself survive the cut, however long the rest is.
StoryComesFirst ==
  Built /\ snapshot.provider_prompt <= 2700 => {"premium", "core_story"} \subseteq prompt.whole

\* Room: 2800 less the fixed sentences, their newlines, and the label of the core story.
\* A story whose texts fit there reaches the provider complete, with every constraint.
Room == 2800 - 73 - 1432 - 12 - 20
StoryFits ==
  Built /\ snapshot.provider_prompt + Joined(Lengths(Material(snapshot)), 0) <= Room
    => LET parts == Parts(snapshot)
       IN \A i \in DOMAIN parts : parts[i].length > 0 => parts[i].name \in prompt.whole

\* Scenes without a description do not use up the four places of the blueprint.
BlankScenesDoNotCount ==
  Built /\ (\E i \in DOMAIN snapshot.scenes : snapshot.scenes[i] # 0)
    => "scenes" \in prompt.parts

\* What the user told reaches the provider: the core story and the prompt's purpose, up to
\* 2700 characters, everything when there is room, and scenes behind blank ones.
StoryKept == StoryComesFirst /\ StoryFits /\ BlankScenesDoNotCount
=============================================================================
