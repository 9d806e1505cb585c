----------------------------- MODULE PromptParts -----------------------------
(***************************************************************************)
(* The system prompt of local chat (server/prompts.rs) and what it is composed *)
(* from: the persona and its budget, the session's output style                *)
(* (server/style.rs, routes/style.rs), its prompt skills (routes/skills.rs),    *)
(* the pinned memory notes (server/memory_notes.rs) and the operator's          *)
(* settings.  Two handlers gather these inputs, the chat turn                   *)
(* (routes/core.rs) and the preview (routes/persona.rs).                        *)
(*                                                                            *)
(* A text is its length in units; which sections appear, and how long, is kept. *)
(***************************************************************************)
EXTENDS Integers, FiniteSets, Sequences, SequencesExt

CONSTANTS
    SoulMaxChars, SoulHardCap,    \* soul_max_chars and SOUL_CHARS_HARD_CAP
    SoulSizes,                    \* lengths of soul.md, 0 when missing
    Styles, BuiltinChars,         \* style names, and the shipped bodies' lengths (0 for none)
    OverlayChars,                 \* length of a well-formed overlay
    SkillIds, SkillSizes, SkillMaxChars, SkillsTotal, MaxSkills,
    MemoryTotal, PinnedReserved, FactsReserved, FactChars,
    MaxNotes, NoteChars, NotesPromptChars,
    GoalModes,                    \* web modes a goal can set, of "off", "fetch" and "all"
    ToolModels                    \* whether the model takes tools: {TRUE}, {FALSE} or both

ASSUME PromptAssumption ==
    /\ {SoulMaxChars, SoulHardCap, OverlayChars, SkillMaxChars, SkillsTotal, MaxSkills, MemoryTotal, PinnedReserved, FactsReserved, FactChars, MaxNotes, NoteChars, NotesPromptChars} \subseteq Nat
    /\ SoulMaxChars <= SoulHardCap /\ PinnedReserved <= MemoryTotal /\ FactsReserved <= MemoryTotal
    /\ SoulSizes \subseteq Nat /\ SkillSizes \subseteq Nat /\ BuiltinChars \in [Styles -> Nat]

VARIABLES
    switches,      \* operator settings that are on: "soul", "memory", "web"
    soulSize,      \* soul.md
    overlay,       \* per style, the operator's styles/<name>.md
    sessionStyle,  \* the session's style, or "off"
    skillSize,     \* per skill, the body of its SKILL.md; 0 when it cannot be loaded
    sessionSkills, \* the session's selected skills
    promptGoal,          \* the session's goal: "none" or its web mode
    noteCount,     \* pinned notes; -1 when notes.json cannot be read
    factsOn,       \* the session selects facts that recall
    callerAuditor, \* the caller is a portal_auditor
    toolModel      \* the model takes tools

promptVars == <<switches, soulSize, overlay, sessionStyle, skillSize, sessionSkills, promptGoal, noteCount, factsOn, callerAuditor, toolModel>>

LeastBudget(a, b) == IF a <= b THEN a ELSE b
Overlays == {"absent", "text", "refused"}   \* refused: empty, unreadable or tripping the scanner

(* --------------------------------- style ---------------------------------- *)
(* style_budget_for_persona: what the persona leaves under the hard cap.           *)
StyleBudget(persona, soulOn) ==
    IF ~soulOn \/ persona = 0 THEN SoulMaxChars
    ELSE LeastBudget(SoulMaxChars, SoulHardCap - LeastBudget(persona, SoulMaxChars))
Unavailable(why) == [chars |-> 0, why |-> why]
(* load_style_within, load_style, finish: the overlay wins, and one that is empty,   *)
(* unreadable or trips the scanner is not replaced by the shipped body.            *)
StyleLoad(name, budget) ==
    IF name = "off" THEN Unavailable("off")
    ELSE IF budget = 0 THEN Unavailable("budget")
    ELSE CASE overlay[name] = "text" -> [chars |-> LeastBudget(OverlayChars, budget), why |-> "none"]
           [] overlay[name] = "refused" -> Unavailable("refused")
           [] overlay[name] = "absent" /\ BuiltinChars[name] > 0 -> [chars |-> LeastBudget(BuiltinChars[name], budget), why |-> "none"]
           [] OTHER -> Unavailable("missing")
SelectStyle(name) ==
    /\ StyleLoad(name, StyleBudget(soulSize, "soul" \in switches)).why = "none"
    /\ sessionStyle' = name
    /\ UNCHANGED <<switches, soulSize, overlay, skillSize, sessionSkills, promptGoal, noteCount, factsOn, callerAuditor, toolModel>>
ClearStyle ==
    /\ sessionStyle # "off" /\ sessionStyle' = "off"
    /\ UNCHANGED <<switches, soulSize, overlay, skillSize, sessionSkills, promptGoal, noteCount, factsOn, callerAuditor, toolModel>>
EditOverlay ==
    /\ \E n \in Styles, o \in Overlays : overlay[n] # o /\ overlay' = [overlay EXCEPT ![n] = o]
    /\ UNCHANGED <<switches, soulSize, sessionStyle, skillSize, sessionSkills, promptGoal, noteCount, factsOn, callerAuditor, toolModel>>

(* --------------------------------- skills --------------------------------- *)
(* load_skill and resolve: each loadable and clipped, at most MaxSkills, and the     *)
(* whole selection within one budget; otherwise the request fails.                 *)
SkillChars(ids) == FoldSeq(LAMBDA k, n : n + LeastBudget(skillSize[k], SkillMaxChars), 0, ids)
Once(ids) ==
    LET f[i \in 0 .. Len(ids)] == IF i = 0 THEN <<>> ELSE IF ids[i] \notin Range(f[i - 1]) THEN Append(f[i - 1], ids[i]) ELSE f[i - 1]
    IN f[Len(ids)]
SkillsResolve(ids) ==
    /\ Len(ids) <= MaxSkills
    /\ \A i \in DOMAIN ids : skillSize[ids[i]] > 0
    /\ SkillChars(Once(ids)) <= SkillsTotal
SelectSkills ==
    /\ \E ids \in UNION {[1 .. n -> SkillIds] : n \in 0 .. MaxSkills} :
         SkillsResolve(ids) /\ Once(ids) # sessionSkills /\ sessionSkills' = Once(ids)
    /\ UNCHANGED <<switches, soulSize, overlay, sessionStyle, skillSize, promptGoal, noteCount, factsOn, callerAuditor, toolModel>>
EditSkill ==
    /\ \E k \in SkillIds, n \in SkillSizes : skillSize[k] # n /\ skillSize' = [skillSize EXCEPT ![k] = n]
    /\ UNCHANGED <<switches, soulSize, overlay, sessionStyle, sessionSkills, promptGoal, noteCount, factsOn, callerAuditor, toolModel>>

(* ------------------------------ memory notes ------------------------------ *)
(* add, forget and clear hold the lock across load and save; a file that cannot be    *)
(* read refuses add and forget, and only clear replaces it.                         *)
NotesKept == UNCHANGED <<switches, soulSize, overlay, sessionStyle, skillSize, sessionSkills, promptGoal, factsOn, callerAuditor, toolModel>>
AddNote == noteCount \in 0 .. (MaxNotes - 1) /\ noteCount' = noteCount + 1 /\ NotesKept
ForgetNote == noteCount > 0 /\ noteCount' = noteCount - 1 /\ NotesKept
ClearNotes == noteCount # 0 /\ noteCount' = 0 /\ NotesKept
NotesCorrupted == noteCount > 0 /\ noteCount' = -1 /\ NotesKept
(* context_text: clipped, and nothing from a file that cannot be read.              *)
NotesContext == IF noteCount <= 0 THEN 0 ELSE LeastBudget(noteCount * NoteChars, NotesPromptChars)

(* assemble_memory_sections: reserved slices when both are present, the whole body    *)
(* for one alone.                                                                  *)
AssembleMemory(pinnedChars, factChars) ==
    LET both == pinnedChars > 0 /\ factChars > 0
        p == LeastBudget(pinnedChars, IF both THEN PinnedReserved ELSE MemoryTotal)
        f == LeastBudget(factChars, IF both THEN FactsReserved ELSE MemoryTotal)
    IN LeastBudget(p + f, MemoryTotal)

(* -------------------------------- settings -------------------------------- *)
ToggleSetting ==
    /\ \E k \in {"soul", "memory", "web"} : switches' = IF k \in switches THEN switches \ {k} ELSE switches \cup {k}
    /\ UNCHANGED <<soulSize, overlay, sessionStyle, skillSize, sessionSkills, promptGoal, noteCount, factsOn, callerAuditor, toolModel>>
ReplaceSoulFile ==
    /\ \E n \in SoulSizes : n # soulSize /\ soulSize' = n
    /\ UNCHANGED <<switches, overlay, sessionStyle, skillSize, sessionSkills, promptGoal, noteCount, factsOn, callerAuditor, toolModel>>
SetPromptGoal ==
    /\ \E g \in {"none"} \cup GoalModes : g # promptGoal /\ promptGoal' = g
    /\ UNCHANGED <<switches, soulSize, overlay, sessionStyle, skillSize, sessionSkills, noteCount, factsOn, callerAuditor, toolModel>>

(* ------------------------------- composition ------------------------------- *)
(* Session::chat_web_mode                                                         *)
ChatWebMode(enabled) == IF ~enabled THEN "off" ELSE IF promptGoal = "none" THEN "all" ELSE promptGoal
(* load_text of the persona file, clipped.                                        *)
LoadSoul(enabled) == IF enabled THEN LeastBudget(soulSize, SoulMaxChars) ELSE 0
(* compose_system_prompt_detailed, from the inputs a handler gathered.              *)
ComposePrompt(in) ==
    [persona |-> LoadSoul(in.soulOn),
     style |-> StyleLoad(in.style, StyleBudget(soulSize, in.soulOn)).chars,
     tools |-> in.webMode, settings |-> [memory |-> in.memoryOn, web |-> in.webOn, soul |-> in.soulOn],
     skills |-> in.skills, goal |-> promptGoal # "none", web |-> in.webExtract, memory |-> AssembleMemory(in.notes, in.facts),
     live |-> in.live, files |-> in.files, reads |-> in.webMode # "off"]
Withheld(auditor, x, none) == IF auditor THEN none ELSE x
(* prompt_memory of a local model: the notes when the switch is on, and the facts.  *)
PromptMemory(auditor) ==
    [notes |-> IF "memory" \in switches /\ ~auditor THEN NotesContext ELSE 0,
     facts |-> IF factsOn /\ ~auditor THEN FactChars ELSE 0]
(* chat_inner's inputs for a local turn of this session.                            *)
TurnInputs ==
    LET a == callerAuditor  web == "web" \in switches IN
    [soulOn |-> "soul" \in switches /\ ~a, style |-> sessionStyle, memoryOn |-> "memory" \in switches /\ ~a, webOn |-> web,
     webMode |-> Withheld(a, ChatWebMode(web /\ toolModel), "off"),
     webExtract |-> ~a /\ ChatWebMode(web) # "off",
     skills |-> Withheld(a, sessionSkills, <<>>),
     notes |-> PromptMemory(a).notes, facts |-> PromptMemory(a).facts,
     live |-> ~a, files |-> ~a]
(* preview's inputs for the same session, without candidate text or overrides.       *)
PreviewInputs ==
    LET a == callerAuditor  web == "web" \in switches IN
    [soulOn |-> "soul" \in switches /\ ~a, style |-> sessionStyle, memoryOn |-> "memory" \in switches /\ ~a, webOn |-> web,
     webMode |-> Withheld(a, ChatWebMode(web), "off"),
     webExtract |-> ~a /\ ChatWebMode(web) # "off",
     skills |-> Withheld(a, sessionSkills, <<>>),
     notes |-> PromptMemory(a).notes, facts |-> PromptMemory(a).facts,
     live |-> ~a, files |-> ~a]
Served(in) == SkillsResolve(in.skills)

PromptInit ==
    /\ switches = {"soul", "memory"} /\ soulSize \in SoulSizes /\ overlay = [n \in Styles |-> "absent"] /\ sessionStyle = "off"
    /\ skillSize = [k \in SkillIds |-> 1] /\ sessionSkills = <<>> /\ promptGoal = "none" /\ noteCount = 0
    /\ factsOn \in BOOLEAN /\ callerAuditor \in BOOLEAN /\ toolModel \in ToolModels
PromptNext ==
    \/ \E n \in Styles : SelectStyle(n)
    \/ ClearStyle \/ EditOverlay \/ SelectSkills \/ EditSkill
    \/ AddNote \/ ForgetNote \/ ClearNotes \/ NotesCorrupted
    \/ ToggleSetting \/ ReplaceSoulFile \/ SetPromptGoal
PromptSpec == PromptInit /\ [][PromptNext]_promptVars

(* ------------------------------- properties ------------------------------- *)
(* Types of the settings, files and selections.                                  *)
PromptTypeOK ==
    /\ switches \subseteq {"soul", "memory", "web"} /\ soulSize \in SoulSizes /\ overlay \in [Styles -> Overlays]
    /\ sessionStyle \in Styles \cup {"off"} /\ skillSize \in [SkillIds -> SkillSizes] /\ noteCount \in -1 .. MaxNotes

(* preview and chat_inner gather the prompt's inputs each on their own: for a model       *)
(* that takes tools they agree on every section, and on whether the skills resolve.       *)
PreviewMatchesTurn ==
    toolModel => /\ Served(PreviewInputs) = Served(TurnInputs)
                 /\ Served(TurnInputs) => ComposePrompt(PreviewInputs) = ComposePrompt(TurnInputs)
(* style_budget_for_persona: persona and style together never pass the hard cap, however   *)
(* soul.md, the overlay and the settings change after the style was selected, and memory    *)
(* and skills never pass theirs.                                                          *)
SharedCapsHold ==
    LET p == ComposePrompt(TurnInputs) IN
    /\ p.persona + p.style <= SoulHardCap /\ p.memory <= MemoryTotal
    /\ Served(TurnInputs) => SkillChars(p.skills) <= SkillsTotal
==============================================================================
