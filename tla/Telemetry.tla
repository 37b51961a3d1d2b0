----------------------------- MODULE Telemetry -----------------------------
(***************************************************************************)
(* Instrumented agents (telemetry/): tasks run agents under                *)
(* TelemetryMiddleware and, within them, decorated tools and spans, which  *)
(* report to the EventBus of the manager they found when they began.       *)
(* Nothing is locked: get_global_manager and EventBus.subscribe look and   *)
(* then store.  A listener's failure is swallowed by publish.              *)
(***************************************************************************)
EXTENDS Integers, Sequences, FiniteSets

CONSTANTS
    Task,           \* threads or asyncio tasks, each with its own context
    Run,            \* session ids of agent runs
    Listener,
    Manager,        \* managers that may be created
    NoRun,          \* no active context: "unknown_session"
    NoManager,
    MaxDepth        \* bound on nested calls

ASSUME TelemetryAssumption ==
    NoRun \notin Run /\ NoManager \notin Manager /\ MaxDepth \in Nat

VARIABLES
    manager,        \* _GLOBAL_MANAGER
    created,        \* managers in existence
    looked,         \* tasks that have found no manager
    listening,      \* _listeners["tool"] of each bus
    subscribing,    \* subscribers that have looked for the event type
    context,        \* _ACTIVE_CONTEXT of each task
    frames,         \* the calls under way in each task, outermost first
    lastEvent       \* the last event and who was told of it

telemetryVars == <<manager, created, looked, listening, subscribing, context,
                   frames, lastEvent>>
singletonVars == <<manager, created, looked>>

Nobody == [known |-> FALSE, set |-> {}]
NotSubscribing == [manager |-> NoManager, fresh |-> FALSE]
NoEvent == [type |-> "none", run |-> NoRun, to |-> {}]

TelemetryInit ==
    /\ manager = NoManager /\ created = {}
    /\ looked = [t \in Task |-> FALSE]
    /\ listening = [m \in Manager |-> Nobody]
    /\ subscribing = [l \in Listener |-> NotSubscribing]
    /\ context = [t \in Task |-> NoRun]
    /\ frames = [t \in Task |-> <<>>]
    /\ lastEvent = NoEvent

-----------------------------------------------------------------------------
(* get_global_manager: look ...                                            *)
LookForManager(t) ==
    /\ manager = NoManager
    /\ looked' = [looked EXCEPT ![t] = TRUE]
    /\ UNCHANGED <<manager, created, listening, subscribing, context, frames, lastEvent>>

(* ... and create one, though another task may have done so meanwhile.     *)
CreateManager(t, m) ==
    /\ looked[t]
    /\ m \notin created
    /\ manager' = m /\ created' = created \cup {m}
    /\ looked' = [looked EXCEPT ![t] = FALSE]
    /\ UNCHANGED <<listening, subscribing, context, frames, lastEvent>>

(* EventBus.subscribe: look for the type ...                               *)
BeginSubscribe(l) ==
    /\ manager # NoManager /\ subscribing[l] = NotSubscribing
    /\ subscribing' = [subscribing EXCEPT ![l] =
            [manager |-> manager, fresh |-> ~listening[manager].known]]
    /\ UNCHANGED <<singletonVars, listening, context, frames, lastEvent>>

(* ... and add the listener, to a new set if the type was not known.       *)
FinishSubscribe(l) ==
    LET m == subscribing[l].manager
        others == IF subscribing[l].fresh THEN {} ELSE listening[m].set
    IN  /\ m # NoManager
        /\ listening' = [listening EXCEPT ![m] = [known |-> TRUE, set |-> others \cup {l}]]
        /\ subscribing' = [subscribing EXCEPT ![l] = NotSubscribing]
        /\ UNCHANGED <<singletonVars, context, frames, lastEvent>>

Unsubscribe(l, m) ==
    /\ l \in listening[m].set
    /\ listening' = [listening EXCEPT ![m].set = @ \ {l}]
    /\ UNCHANGED <<singletonVars, subscribing, context, frames, lastEvent>>

-----------------------------------------------------------------------------
Top(t) == frames[t][Len(frames[t])]
Pop(t) == frames' = [frames EXCEPT ![t] = SubSeq(@, 1, Len(@) - 1)]
Push(t, kind, run) ==
    /\ manager # NoManager
    /\ Len(frames[t]) < MaxDepth
    /\ frames' = [frames EXCEPT ![t] = Append(@,
            [kind |-> kind, run |-> run, token |-> context[t], manager |-> manager])]

(* The emitter publishes on its manager's bus; only "tool" has listeners.  *)
Emit(type, run, m) ==
    lastEvent' = [type |-> type, run |-> run,
                  to |-> IF type = "tool" THEN listening[m].set ELSE {}]

(* TelemetryMiddleware: the context is bound, the token of the one before  *)
(* is kept, and agent_start is emitted.                                    *)
StartRun(t, r) ==
    /\ Push(t, "run", r)
    /\ context' = [context EXCEPT ![t] = r]
    /\ Emit("agent_start", r, manager)
    /\ UNCHANGED <<singletonVars, listening, subscribing>>

MutantRestored(t) == NoRun

(* ContextVar.reset(token)                                                 *)
Restored(t) == Top(t).token

(* The run returns or raises: agent_end or agent_error.                    *)
EndRun(t) ==
    /\ frames[t] # <<>> /\ Top(t).kind = "run"
    /\ \E type \in {"agent_end", "agent_error"} : Emit(type, Top(t).run, Top(t).manager)
    /\ Pop(t)
    /\ context' = [context EXCEPT ![t] = Restored(t)]
    /\ UNCHANGED <<singletonVars, listening, subscribing>>

(* An exception that "except Exception" does not catch, as the             *)
(* cancellation of a task: the context is restored, nothing is reported.   *)
Cancel(t) ==
    /\ frames[t] # <<>>
    /\ Pop(t)
    /\ context' = [context EXCEPT ![t] = IF Top(t).kind = "run" THEN Restored(t) ELSE @]
    /\ UNCHANGED <<singletonVars, listening, subscribing, lastEvent>>

(* observe_tool, observe_llm; span, which reads the context at the start.  *)
StartCall(t) ==
    /\ \E kind \in {"tool", "llm", "span"} : Push(t, kind, context[t])
    /\ UNCHANGED <<singletonVars, listening, subscribing, context, lastEvent>>

(* What the collector makes of a measurement in the active context.        *)
Collect(t, type, m) ==
    /\ Emit(type, context[t], m)
    /\ UNCHANGED <<singletonVars, listening, subscribing, context>>

Ends(t, kind) == frames[t] # <<>> /\ Top(t).kind = kind /\ Pop(t)

(* The decorators report on success as on failure.                         *)
EndTool(t) == Ends(t, "tool") /\ Collect(t, "tool", Top(t).manager)
EndLlm(t) == Ends(t, "llm") /\ Collect(t, "llm", Top(t).manager)

EndSpan(t) ==
    /\ Ends(t, "span")
    /\ Emit("span", Top(t).run, Top(t).manager)
    /\ UNCHANGED <<singletonVars, listening, subscribing, context>>

(* collect_memory, collect_filesystem and collect_network, called directly *)
CollectDirectly(t) ==
    /\ manager # NoManager
    /\ Collect(t, "measurement", manager)
    /\ UNCHANGED frames

Reports(t) == EndTool(t) \/ EndLlm(t) \/ EndSpan(t) \/ CollectDirectly(t)

TelemetryNext ==
    \/ \E t \in Task :
        \/ LookForManager(t) \/ EndRun(t) \/ Cancel(t) \/ StartCall(t) \/ Reports(t)
        \/ \E m \in Manager : CreateManager(t, m)
        \/ \E r \in Run : StartRun(t, r)
    \/ \E l \in Listener :
        \/ BeginSubscribe(l) \/ FinishSubscribe(l)
        \/ \E m \in Manager : Unsubscribe(l, m)

TelemetrySpec == TelemetryInit /\ [][TelemetryNext]_telemetryVars

-----------------------------------------------------------------------------
RunFrames(t) == {i \in DOMAIN frames[t] : frames[t][i].kind = "run"}

(* What a tool, a model call or a span reports carries the session of the  *)
(* innermost run around it in its own task, however runs nest, fail, are   *)
(* cancelled and overlap with other tasks (context.py, decorators.py).     *)
InnermostRun(t) ==
    IF RunFrames(t) = {} THEN NoRun
    ELSE frames[t][CHOOSE i \in RunFrames(t) : \A j \in RunFrames(t) : j <= i].run

EventsCarryTheirRun ==
    [][\A t \in Task : Reports(t) => lastEvent'.run = InnermostRun(t)]_telemetryVars

=============================================================================
