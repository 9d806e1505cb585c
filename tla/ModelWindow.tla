----------------------------- MODULE ModelWindow -----------------------------
(***************************************************************************)
(* The context window local calls are sized for: model selection             *)
(* (routes/core.rs), auto_tune (server/model_limits.rs, llm/profile.rs), the  *)
(* cached /api/ps reads and the caps that follow them (server/state.rs,       *)
(* server/compaction.rs), reloads of the web budget (server/config_reload.rs)  *)
(* and the check a chat turn makes just before it sends.  Ollama is external:  *)
(* it may unload a model, or load it again with another window, at any time.    *)
(***************************************************************************)
EXTENDS Integers, FiniteSets

CONSTANTS
    Models,              \* local models; a cloud selection is "cloud"
    WindowSizes,         \* windows Ollama may load a model with
    BaseWindow, MaxWindow, PromptBase, WebBase,
    ShippedCompact, ShippedReply, ShippedWeb,     \* the shipped values propose scales
    WebBudgets,          \* values of web.total_tokens a reload may publish
    Headroom, ToolDefTokens, MinResultTokens,
    PrefillReach,        \* what the measured prefill reads in compact_max_prefill_sec
    FallbackEnabled,     \* models.local_llm.fallback.enabled
    ToolFree,            \* models that declare no tool support
    MaxTunes, MaxWindowReads   \* bounds: tune tasks, and turns started

ASSUME WindowAssumption ==
    /\ {BaseWindow, MaxWindow, PromptBase, WebBase, ShippedCompact, ShippedReply, ShippedWeb, Headroom, ToolDefTokens, MinResultTokens, PrefillReach, MaxTunes, MaxWindowReads} \subseteq Nat
    /\ BaseWindow > 0 /\ WindowSizes \subseteq Nat \ {0} /\ WebBudgets \subseteq Nat /\ ToolFree \subseteq Models

VARIABLES
    chatProvider,     \* backend.provider: "ollama" or "lmstudio"
    selection,    \* settings.selected_model
    tuned,        \* the tuning slot
    psCache,      \* OllamaControl.window: the last read, and whether it is still fresh
    resident,     \* per model, the window Ollama has it loaded with; 0 when not loaded
    webBudget,    \* the live web.total_tokens
    tunes,        \* tune tasks: per task its model, stage and measured speed
    genGate,      \* generation_gate: "free", "turn" or a tune task
    sizedTurn,         \* the chat turn
    started       \* turns started

windowVars == <<chatProvider, selection, tuned, psCache, resident, webBudget, tunes, genGate, sizedTurn, started>>

Unknown == -1
NotLoaded == 0
NoTuning == [model |-> "none", window |-> 0, compact |-> 0, reply |-> 0, web |-> 0, toolsOff |-> FALSE, timed |-> FALSE]
NoWindowRead == [model |-> "none", size |-> Unknown, fresh |-> FALSE]
NoTurn == [at |-> "idle", model |-> "none", limit |-> 0, web |-> 0, sizedTuned |-> FALSE, read |-> Unknown]
NoTune == [model |-> "none", at |-> "free", timed |-> FALSE, window |-> 0]
Tasks == 1 .. MaxTunes
Lower(a, b) == IF a <= b THEN a ELSE b
Higher(a, b) == IF a >= b THEN a ELSE b
Less(a, b) == IF a >= b THEN a - b ELSE 0

(* resolve_local_backend: the primary unless the fallback is enabled and only it   *)
(* answers.                                                                       *)
ResolveBackend(primaryReady, fallbackReady) ==
    IF FallbackEnabled /\ ~primaryReady /\ fallbackReady THEN "lmstudio" ELSE "ollama"

(* ---------------------------------- caps ---------------------------------- *)
WindowCap(base, w) == IF w = Unknown THEN base ELSE (base * Lower(w, MaxWindow)) \div BaseWindow
TunedFor(m) == tuned.model = m
(* cached_window, verified_window: the smaller of the tuning's window and a read   *)
(* of the last few seconds.                                                       *)
VerifiedWindow(m) ==
    IF TunedFor(m) /\ psCache.model = m /\ psCache.fresh /\ psCache.size # Unknown THEN Lower(tuned.window, psCache.size) ELSE Unknown
PromptCap(m) == WindowCap(PromptBase, VerifiedWindow(m))
(* model_web_limits, apply_web                                                     *)
WebLimits(m) ==
    Lower(IF TunedFor(m) /\ tuned.web > 0 THEN Lower(webBudget, tuned.web) ELSE webBudget, WindowCap(WebBase, VerifiedWindow(m)))
MaxWindowTokens(m) == IF TunedFor(m) THEN Lower(ShippedReply, tuned.reply) ELSE ShippedReply
(* reply_reservation: once on Ollama without reasoning, twice elsewhere.            *)
TurnReservation(reply) == IF chatProvider = "ollama" THEN reply ELSE 2 * reply
ToolsOff(m) == TunedFor(m) /\ tuned.toolsOff
(* compact_prompt_tokens and window_trigger                                        *)
CompactTokens(m) ==
    IF ~TunedFor(m) THEN ShippedCompact
    ELSE LET w == IF VerifiedWindow(m) = Unknown THEN BaseWindow ELSE VerifiedWindow(m)
             measured == Higher(1, Lower(tuned.window, MaxWindow))
             proposed == (tuned.compact * Lower(w, measured)) \div measured
             tight == IF ShippedCompact >= tuned.compact THEN Lower(Lower(ShippedCompact, tuned.compact), proposed) ELSE Lower(ShippedCompact, tuned.compact)
         IN IF ~tuned.timed \/ w <= BaseWindow THEN tight
            ELSE Higher(tight, Lower(Lower(proposed, PromptCap(m)), PrefillReach + MaxWindowTokens(m)))
(* prompt_limit, turn_prompt_limit                                                 *)
TurnPromptLimit(configured, cap, web, offered, reserve) ==
    LET floor == Lower(cap, reserve + Headroom + (IF offered THEN ToolDefTokens ELSE 0))
        room == Lower(Lower(configured, cap), IF offered THEN Less(web, MinResultTokens) ELSE cap)
    IN Higher(room, floor)
Trigger(m) == TurnPromptLimit(CompactTokens(m), PromptCap(m), WebLimits(m), ~ToolsOff(m), MaxWindowTokens(m))
HardLimit(m) == TurnPromptLimit(PromptCap(m), PromptCap(m), WebLimits(m), ~ToolsOff(m), TurnReservation(MaxWindowTokens(m)))

(* --------------------------------- Ollama --------------------------------- *)
(* A keep_alive expires, or Ollama restarts and loads a model with another window.  *)
OllamaChanges ==
    /\ \E m \in Models, w \in WindowSizes \cup {NotLoaded} : w # resident[m] /\ resident' = [resident EXCEPT ![m] = w]
    /\ UNCHANGED <<chatProvider, selection, tuned, psCache, webBudget, tunes, genGate, sizedTurn, started>>
ReadAges ==
    /\ psCache.fresh /\ psCache' = [psCache EXCEPT !.fresh = FALSE]
    /\ UNCHANGED <<chatProvider, selection, tuned, resident, webBudget, tunes, genGate, sizedTurn, started>>
(* loaded_window_state: what /api/ps answers, or nothing usable.                    *)
PsAnswers(m) == {resident[m], Unknown}
(* probe_window_state: every read is cached, a failed one too.                      *)
Cached(m, r) == [model |-> m, size |-> IF r = NotLoaded THEN Unknown ELSE r, fresh |-> TRUE]
(* verify_window: a tuned model is read again, an untuned one is not.                *)
VerifyWindow(m) == IF TunedFor(m) THEN \E r \in PsAnswers(m) : psCache' = Cached(m, r) ELSE UNCHANGED psCache
(* load_model: the warmup request; it may fail.                                     *)
LoadOutcomes(m) == {[resident EXCEPT ![m] = w] : w \in WindowSizes} \cup {resident}

(* ------------------------------ model selection ---------------------------- *)
(* provider_for: a cloud selection is its own provider.                              *)
ProviderFor(m) == IF m \in Models THEN chatProvider ELSE "cloud"
(* model_select: cancels the owner's own turn, saves, clears the tuning, and for a   *)
(* local model starts a tune task.  A turn that has not taken its chat lease yet     *)
(* cannot be cancelled and goes on with the model it read; one that another owner    *)
(* holds makes the selection refused.                                               *)
ModelSelect ==
    /\ \E m \in Models \cup {"cloud"} :
         /\ m # selection /\ selection' = m
         /\ IF ProviderFor(m) = "ollama"
            THEN \E t \in Tasks : tunes[t].at = "free" /\ tunes' = [tunes EXCEPT ![t] = [NoTune EXCEPT !.model = m, !.at = "measure"]]
            ELSE UNCHANGED tunes
    /\ sizedTurn' \in (IF sizedTurn.at \in {"idle", "gate"} THEN {sizedTurn} ELSE {}) \cup (IF sizedTurn.at = "idle" THEN {} ELSE {[sizedTurn EXCEPT !.at = "cancelled"]})
    /\ genGate' = IF genGate = "turn" THEN "free" ELSE genGate
    /\ tuned' = NoTuning
    /\ UNCHANGED <<chatProvider, psCache, resident, webBudget, started>>
(* --------------------------------- auto_tune -------------------------------- *)
(* tune: retries while the gate is busy (and goes on unmeasured after its last        *)
(* attempt), gives up when the selection changed, and measures (loading the model)     *)
(* with the gate held.                                                              *)
TuneMeasures(t) ==
    /\ tunes[t].at = "measure" /\ genGate = "free" /\ selection = tunes[t].model
    /\ genGate' = "tune"
    /\ \E next \in LoadOutcomes(tunes[t].model) : resident' = next
    /\ tunes' = [tunes EXCEPT ![t].at = "measuring"]
    /\ UNCHANGED <<chatProvider, selection, tuned, psCache, webBudget, sizedTurn, started>>
TuneUnmeasured(t) ==
    /\ tunes[t].at = "measure" /\ genGate # "free" /\ selection = tunes[t].model
    /\ tunes' = [tunes EXCEPT ![t].at = "probe"]
    /\ UNCHANGED <<chatProvider, selection, tuned, psCache, resident, webBudget, genGate, sizedTurn, started>>
TuneMeasured(t) ==
    /\ tunes[t].at = "measuring" /\ genGate' = "free"
    /\ \E timed \in BOOLEAN : tunes' = [tunes EXCEPT ![t].at = "probe", ![t].timed = timed]
    /\ UNCHANGED <<chatProvider, selection, tuned, psCache, resident, webBudget, sizedTurn, started>>
TuneGivesUp(t) ==
    /\ tunes[t].at \in {"measure", "probe"}
    /\ \/ selection # tunes[t].model
       \/ tunes[t].at = "probe"                   \* the profile is not usable
    /\ tunes' = [tunes EXCEPT ![t] = NoTune]
    /\ UNCHANGED <<chatProvider, selection, tuned, psCache, resident, webBudget, genGate, sizedTurn, started>>
(* scale and propose: shipped values scaled to the window, each under its ceiling.     *)
Scaled(shipped, w, least) == Higher((shipped * Lower(w, MaxWindow)) \div BaseWindow, least)
WebViable(web, reply) == Less(Less(Less(web, MinResultTokens), TurnReservation(reply)), ToolDefTokens) >= Headroom
(* propose: the trigger counts one reply plus headroom.                               *)
Propose(w) ==
    LET reply == Scaled(ShippedReply, w, 1)
    IN [reply |-> reply, web |-> Lower(Scaled(ShippedWeb, w, 1), WindowCap(WebBase, w)),
        compact |-> Higher(Lower(Scaled(ShippedCompact, w, 1), WindowCap(PromptBase, w)), reply + Headroom)]
(* tuning_from: no web budget, and no tools, where web chat cannot fit.                *)
TuningFrom(m, w, timed) ==
    LET values == Propose(w)
        viable == WebViable(values.web, values.reply)
    IN [model |-> m, window |-> w, compact |-> values.compact, reply |-> values.reply,
        web |-> IF viable THEN values.web ELSE 0, toolsOff |-> m \in ToolFree \/ ~viable, timed |-> timed]
(* profile::probe finds the loaded window only for a resident model.                  *)
Profiled(m) == resident[m] # NotLoaded
(* probe, then the selection is checked once more ...                                 *)
TuneProbes(t) ==
    LET m == tunes[t].model IN
    /\ tunes[t].at = "probe" /\ Profiled(m) /\ selection = m
    /\ tunes' = [tunes EXCEPT ![t].at = "install", ![t].window = resident[m]]
    /\ UNCHANGED <<chatProvider, selection, tuned, psCache, resident, webBudget, genGate, sizedTurn, started>>
(* ... and set_tuning installs: a selection made in between does not stop it.           *)
TuneInstalls(t) ==
    /\ tunes[t].at = "install" /\ tunes' = [tunes EXCEPT ![t] = NoTune]
    /\ tuned' = TuningFrom(tunes[t].model, tunes[t].window, tunes[t].timed)
    /\ UNCHANGED <<chatProvider, selection, psCache, resident, webBudget, genGate, sizedTurn, started>>

(* ---------------------------------- reload ---------------------------------- *)
(* reload: one validated snapshot; verify_window reads first for a tuned selection.     *)
ReloadWeb ==
    /\ sizedTurn.at # "sent"
    /\ \E b \in WebBudgets : b # webBudget /\ webBudget' = b
    /\ VerifyWindow(selection)
    /\ UNCHANGED <<chatProvider, selection, tuned, resident, tunes, genGate, sizedTurn, started>>

(* ----------------------------------- turn ----------------------------------- *)
(* chat_inner: sized_tuned is noted, then verify_window reads for a tuned model.         *)
SizedTurnStarts ==
    /\ sizedTurn.at = "idle" /\ started < MaxWindowReads /\ selection \in Models
    /\ started' = started + 1
    /\ sizedTurn' = [NoTurn EXCEPT !.at = "gate", !.model = selection, !.sizedTuned = TunedFor(selection)]
    /\ VerifyWindow(selection)
    /\ UNCHANGED <<chatProvider, selection, tuned, resident, webBudget, tunes, genGate>>
TurnTakesGate ==
    /\ sizedTurn.at = "gate" /\ genGate = "free" /\ genGate' = "turn" /\ sizedTurn' = [sizedTurn EXCEPT !.at = "load"]
    /\ UNCHANGED <<chatProvider, selection, tuned, psCache, resident, webBudget, tunes, started>>
EndSizedTurn == sizedTurn' = NoTurn /\ genGate' = IF genGate = "turn" THEN "free" ELSE genGate
(* load_if_absent: a tuned model that Ollama reports not loaded is loaded and read, and   *)
(* a window that stays unreported ends the turn.                                         *)
TurnLoads ==
    LET m == sizedTurn.model IN
    /\ sizedTurn.at = "load"
    /\ IF ~TunedFor(m) \/ VerifiedWindow(m) # Unknown
       THEN sizedTurn' = [sizedTurn EXCEPT !.at = "size"] /\ UNCHANGED <<psCache, resident, genGate>>
       ELSE \E r \in PsAnswers(m) :
              IF r # NotLoaded
              THEN psCache' = Cached(m, r) /\ sizedTurn' = [sizedTurn EXCEPT !.at = "size"] /\ UNCHANGED <<resident, genGate>>
              ELSE \E next \in LoadOutcomes(m) :
                     /\ resident' = next
                     /\ IF next[m] # NotLoaded
                        THEN \E again \in {next[m], Unknown} :
                               /\ psCache' = Cached(m, again)
                               /\ IF again = Unknown THEN EndSizedTurn ELSE sizedTurn' = [sizedTurn EXCEPT !.at = "size"] /\ UNCHANGED genGate
                        ELSE psCache' = Cached(m, r) /\ EndSizedTurn
    /\ UNCHANGED <<chatProvider, selection, tuned, webBudget, tunes, started>>
TurnSizes ==
    /\ sizedTurn.at = "size"
    /\ sizedTurn' = [sizedTurn EXCEPT !.at = "check", !.limit = HardLimit(sizedTurn.model), !.web = IF ToolsOff(sizedTurn.model) THEN 0 ELSE WebLimits(sizedTurn.model)]
    /\ UNCHANGED <<chatProvider, selection, tuned, psCache, resident, webBudget, tunes, genGate, started>>
Allows(w) == sizedTurn.limit <= WindowCap(PromptBase, w) /\ sizedTurn.web <= WindowCap(WebBase, w)
MutNeedsRead == ~Allows(Unknown)
(* ensure_window_allows: a call sized with a tuning, or past the defaults, is read again   *)
(* even when the tuning has gone.                                                        *)
NeedsRead == sizedTurn.sizedTuned \/ ~Allows(Unknown)
TurnChecks ==
    LET m == sizedTurn.model IN
    /\ sizedTurn.at = "check"
    /\ \/ /\ ~TunedFor(m) /\ ~NeedsRead
          /\ sizedTurn' = [sizedTurn EXCEPT !.at = "sent"] /\ UNCHANGED <<psCache, resident, genGate>>
       \/ /\ ~TunedFor(m) /\ NeedsRead
          /\ \E r \in PsAnswers(m) :
               /\ psCache' = Cached(m, r)
               /\ IF r > 0 /\ Allows(r) THEN sizedTurn' = [sizedTurn EXCEPT !.at = "sent", !.read = r] /\ UNCHANGED genGate ELSE EndSizedTurn
          /\ UNCHANGED resident
       \/ /\ TunedFor(m)
          /\ \E r \in PsAnswers(m), next \in LoadOutcomes(m) :
               LET now == IF r = NotLoaded THEN next ELSE resident
                   seen == IF r = NotLoaded /\ now[m] # NotLoaded THEN now[m] ELSE r
                   w == Lower(tuned.window, seen)
               IN /\ resident' = now /\ psCache' = Cached(m, seen)
                  /\ IF seen > 0 /\ Allows(w) THEN sizedTurn' = [sizedTurn EXCEPT !.at = "sent", !.read = seen] /\ UNCHANGED genGate ELSE EndSizedTurn
    /\ UNCHANGED <<chatProvider, selection, tuned, webBudget, tunes, started>>
SizedTurnEnds ==
    /\ sizedTurn.at \in {"sent", "cancelled"} /\ EndSizedTurn
    /\ UNCHANGED <<chatProvider, selection, tuned, psCache, resident, webBudget, tunes, started>>

WindowInit ==
    /\ \E p, f \in BOOLEAN : chatProvider = ResolveBackend(p, f)
    /\ selection = "cloud" /\ tuned = NoTuning /\ psCache = NoWindowRead /\ resident = [m \in Models |-> NotLoaded]
    /\ webBudget \in WebBudgets /\ tunes = [t \in Tasks |-> NoTune]
    /\ genGate = "free" /\ sizedTurn = NoTurn /\ started = 0
WindowNext ==
    \/ OllamaChanges \/ ReadAges \/ ModelSelect \/ ReloadWeb
    \/ \E t \in Tasks : TuneMeasures(t) \/ TuneUnmeasured(t) \/ TuneMeasured(t) \/ TuneGivesUp(t) \/ TuneProbes(t) \/ TuneInstalls(t)
    \/ SizedTurnStarts \/ TurnTakesGate \/ TurnLoads \/ TurnSizes \/ TurnChecks \/ SizedTurnEnds
WindowSpec == WindowInit /\ [][WindowNext]_windowVars

(* ------------------------------- properties ------------------------------- *)
(* Types of the selection, the tuning and the turn.                               *)
WindowTypeOK ==
    /\ chatProvider \in {"ollama", "lmstudio"} /\ selection \in Models \cup {"cloud"} /\ tuned.model \in Models \cup {"none"}
    /\ resident \in [Models -> WindowSizes \cup {NotLoaded}] /\ genGate \in {"free", "turn", "tune"} /\ sizedTurn.limit \in Nat

(* ensure_window_allows: a turn whose limits followed a measured window is sent only when  *)
(* the window Ollama reported at the check still holds its prompt and web budget, through   *)
(* reloads of the model, of the limits, and a tuning cleared on the way.                    *)
SentFitsWindow ==
    sizedTurn.at = "sent" /\ (sizedTurn.sizedTuned \/ ~Allows(Unknown)) => sizedTurn.read > 0 /\ Allows(sizedTurn.read)
(* turn_prompt_limit, window_trigger: whatever is tuned, cached or stale, compaction is       *)
(* triggered no later than the turn is refused, and neither bound passes the prompt cap.       *)
TriggerBeforeLimit == \A m \in Models : Trigger(m) <= HardLimit(m) /\ HardLimit(m) <= PromptCap(m)
==============================================================================
