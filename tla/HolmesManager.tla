---------------------------- MODULE HolmesManager ----------------------------
(***************************************************************************)
(* holms_wrapper: the manager of the Holmes profiler of a process.  The    *)
(* goroutine that StartHolmes starts reads the configuration, or publishes *)
(* a default one, and watches it; a callback runs the same handler for     *)
(* every change that is noticed; the shutdown stops the profiler.  Nothing *)
(* keeps them apart.                                                       *)
(*                                                                         *)
(* A step is what happens between two accesses to the field triggerHolmes. *)
(***************************************************************************)
EXTENDS Naturals, Sequences

CONSTANTS Callbacks,
          Profiles,   \* configurations that enable the profiler
          Default,    \* the one that init publishes
          MaxProfilers, MaxChanges \* bounds

\* "invalid" enables a profiler that cannot be created, "null item" one whose
\* items have a null among them.
Useless == {"", "unreadable", "null", "disabled", "invalid", "null item"}

ASSUME HolmesAssumption ==
    /\ Default \in Profiles
    /\ \A content \in Useless : content \notin Profiles
    /\ MaxProfilers \in Nat /\ MaxChanges \in Nat

Starter == "init"
Quit == "quit"
Handlers == Callbacks \cup {Starter, Quit}

Contents == Profiles \cup Useless

VARIABLES
    trigger,      \* manager.triggerHolmes, 0 for nil
    holmesConfig, \* manager.holmesConfig
    profilers,    \* the configuration of every profiler there has been
    running,      \* those that run
    tracing,      \* rates of mutex and block profiles are set
    step,         \* per goroutine
    val,          \* per goroutine, the content that it handles
    published,    \* the content in Nacos
    watched,      \* the configuration is listened to
    changes,
    handled,      \* ghost: the content of the last handler that began
    overlapped,   \* ghost: two goroutines have been in the handler at once
    panicked

holmesVars == <<trigger, holmesConfig, profilers, running, tracing, step, val,
                published, watched, changes, handled, overlapped, panicked>>
manager == <<trigger, holmesConfig, profilers, running, tracing>>
environment == <<published, watched, changes>>
ghosts == <<handled, overlapped>>

Inside == {"check", "stop", "clear", "parse", "create", "store", "start"}

HolmesTypeOK ==
    /\ trigger \in 0..Len(profilers)
    /\ holmesConfig \in Contents
    /\ profilers \in Seq(Profiles) /\ Len(profilers) <= MaxProfilers
    /\ running \in SUBSET (1..Len(profilers))
    /\ tracing \in BOOLEAN
    /\ step \in [Handlers -> Inside \cup {"idle", "get", "publish", "watch", "trace", "ended"}]
    /\ val \in [Handlers -> Contents]
    /\ published \in Contents \cup {"missing"}
    /\ watched \in BOOLEAN
    /\ changes \in 0..MaxChanges
    /\ handled \in Contents
    /\ overlapped \in BOOLEAN
    /\ panicked \in BOOLEAN

HolmesInit ==
    /\ trigger = 0
    /\ holmesConfig = "disabled"
    /\ profilers = <<>>
    /\ running = {}
    /\ tracing = FALSE
    /\ step = [g \in Handlers |-> IF g = Starter THEN "get" ELSE "idle"]
    /\ val = [g \in Handlers |-> ""]
    /\ published \in Contents \cup {"missing"}
    /\ watched = FALSE
    /\ changes = 0
    /\ handled = ""
    /\ overlapped = FALSE
    /\ panicked = FALSE

-----------------------------------------------------------------------------
Go(g, next) == step' = [step EXCEPT ![g] = next] /\ UNCHANGED val

After(g) == IF g = Starter THEN "watch" ELSE IF g = Quit THEN "ended" ELSE "idle"

Leave(g) ==
    /\ step' = [step EXCEPT ![g] = After(g)]
    /\ val' = [val EXCEPT ![g] = ""]

Panic == panicked' = TRUE /\ UNCHANGED <<step, val>>

\* A call of the handler, or of stopTriggerHolmes.
Enter(g, content) ==
    /\ step' = [step EXCEPT ![g] = "check"]
    /\ val' = [val EXCEPT ![g] = content]
    /\ handled' = content
    /\ overlapped' = (overlapped \/ \E h \in Handlers \ {g} : step[h] \in Inside)

\* The field is used without a look at it.
BugStopTriggerHolmes(g) ==
    /\ step[g] = "check"
    /\ Go(g, "stop")
    /\ UNCHANGED <<manager, val, environment, ghosts, panicked>>

stopTriggerHolmes(g) ==
    /\ step[g] = "check"
    /\ Go(g, IF trigger = 0 THEN "parse" ELSE "stop")
    /\ UNCHANGED <<manager, environment, ghosts, panicked>>

\* The profiler is only forgotten.
BugStopProfiler(g) ==
    /\ step[g] = "stop"
    /\ Go(g, "clear")
    /\ UNCHANGED <<manager, environment, ghosts, panicked>>

StopProfiler(g) ==
    /\ step[g] = "stop"
    /\ IF trigger = 0
       THEN Panic /\ UNCHANGED running
       ELSE Go(g, "clear") /\ running' = running \ {trigger} /\ UNCHANGED panicked
    /\ UNCHANGED <<trigger, holmesConfig, profilers, tracing, environment, ghosts>>

ClearTrigger(g) ==
    /\ step[g] = "clear"
    /\ Go(g, "parse")
    /\ tracing' = FALSE
    /\ trigger' = 0
    /\ UNCHANGED <<holmesConfig, profilers, running, environment, ghosts, panicked>>

\* The configuration of the manager stays what it was.
BugParse(g) ==
    /\ step[g] = "parse"
    /\ IF val[g] \in {"", "unreadable"} THEN Leave(g) ELSE Go(g, "create")
    /\ UNCHANGED <<manager, environment, ghosts, panicked>>

\* The shutdown, which has no content, leaves here; "null" is read without an
\* error, as a nil pointer.
Parse(g) ==
    /\ step[g] = "parse"
    /\ \/ val[g] = "null" /\ Panic /\ UNCHANGED holmesConfig
       \/ val[g] \in {"", "unreadable"} /\ Leave(g) /\ UNCHANGED <<holmesConfig, panicked>>
       \/ /\ val[g] \notin {"", "unreadable", "null"}
          /\ Go(g, "create") /\ holmesConfig' = val[g] /\ UNCHANGED panicked
    /\ UNCHANGED <<trigger, profilers, running, tracing, environment, ghosts>>

\* A profiler can be made of the configuration.
newHolmes == holmesConfig \in Profiles

\* A null item is dereferenced for its type.
createTriggerHolmes(g) ==
    /\ step[g] = "create"
    /\ tracing' = (tracing \/ holmesConfig # "disabled")
    /\ \/ /\ newHolmes
          /\ Len(profilers) < MaxProfilers
          /\ Go(g, "start")
          /\ profilers' = Append(profilers, holmesConfig)
          /\ trigger' = Len(profilers) + 1
          /\ UNCHANGED panicked
       \/ /\ ~newHolmes
          /\ IF holmesConfig = "null item" THEN Panic ELSE Leave(g) /\ UNCHANGED panicked
          /\ UNCHANGED <<profilers, trigger>>
    /\ UNCHANGED <<holmesConfig, running, environment, ghosts>>

\* Whatever the fields hold by now is used.
StartProfiler(g) ==
    /\ step[g] = "start"
    /\ IF trigger = 0 \/ holmesConfig = "null item"
       THEN Panic /\ UNCHANGED running
       ELSE Leave(g) /\ running' = running \cup {trigger} /\ UNCHANGED panicked
    /\ UNCHANGED <<trigger, holmesConfig, profilers, tracing, environment, ghosts>>

-----------------------------------------------------------------------------
\* A configuration that is missing and one that cannot be fetched are one.
GetConfig ==
    /\ step[Starter] = "get"
    /\ \/ published # "missing" /\ Enter(Starter, published)
       \/ Go(Starter, "publish") /\ UNCHANGED ghosts
    /\ UNCHANGED <<manager, environment, panicked>>

\* Nothing is expected of what is there: it is overwritten.
PublishDefault ==
    /\ step[Starter] = "publish"
    /\ \/ Enter(Starter, Default) /\ published' = Default
       \/ Go(Starter, "ended") /\ UNCHANGED <<ghosts, published>>
    /\ UNCHANGED <<manager, watched, changes, panicked>>

WatchConfig ==
    /\ step[Starter] = "watch"
    /\ Go(Starter, "trace")
    /\ watched' \in BOOLEAN
    /\ UNCHANGED <<manager, published, changes, ghosts, panicked>>

SetRates ==
    /\ step[Starter] = "trace"
    /\ Go(Starter, "ended")
    /\ tracing' = TRUE
    /\ UNCHANGED <<trigger, holmesConfig, profilers, running, environment, ghosts, panicked>>

StopHolmes ==
    /\ step[Quit] = "idle"
    /\ Enter(Quit, "")
    /\ UNCHANGED <<manager, environment, panicked>>

Change(content) ==
    /\ changes < MaxChanges
    /\ changes' = changes + 1
    /\ published' = content
    /\ UNCHANGED <<manager, step, val, watched, ghosts, panicked>>

\* The client library starts a goroutine with what it has noticed.
Notify(c) ==
    /\ watched /\ step[c] = "idle"
    /\ published # "missing"
    /\ Enter(c, published)
    /\ UNCHANGED <<manager, environment, panicked>>

HolmesStep(g) ==
    \/ stopTriggerHolmes(g) \/ StopProfiler(g) \/ ClearTrigger(g)
    \/ Parse(g) \/ createTriggerHolmes(g) \/ StartProfiler(g)

HolmesNext ==
    /\ ~panicked
    /\ \/ \E g \in Handlers : HolmesStep(g)
       \/ GetConfig \/ PublishDefault \/ WatchConfig \/ SetRates
       \/ StopHolmes
       \/ \E c \in Contents : Change(c)
       \/ \E c \in Callbacks : Notify(c)

HolmesSpec == HolmesInit /\ [][HolmesNext]_holmesVars

-----------------------------------------------------------------------------
\* Unless two goroutines are in the handler at once, the only profiler that
\* runs is the one the manager can stop.
Managed == overlapped \/ running \subseteq {trigger}

\* When no handler runs, the profiler is the one the latest content asks for,
\* also when that could not be read, and after the shutdown has stopped it.
Follows ==
    overlapped \/ panicked \/ (\E g \in Handlers : step[g] \in Inside)
    \/ {profilers[p] : p \in running} = {handled} \cap Profiles

\* A profiler that runs has the rates set.
Traced == overlapped \/ running = {} \/ tracing

\* The process dies only of handlers that overlap, or of a null in the content:
\* the whole of it or one of its items.
Survives == panicked => overlapped \/ handled \in {"null", "null item"}
=============================================================================
