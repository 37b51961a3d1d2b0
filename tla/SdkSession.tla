----------------------------- MODULE SdkSession -----------------------------
(***************************************************************************)
(* AgentSession (sdk/session.py) and the factories of Action               *)
(* (interception/models.py): how a tool call and its keyword arguments     *)
(* become the action that is verified, and what the tool is then run with. *)
(* Arguments are functions from keys to values that are not empty; the     *)
(* verdict of the client is an input.  One thread uses a session.          *)
(***************************************************************************)
EXTENDS Integers, Sequences, SequencesExt

CONSTANTS
    ToolCall,       \* [shape, name, own]: what callers pass again and again
    Keywords,       \* sets of keyword arguments
    Defaults,       \* defaults of the parameters of a wrapped function
    TermsOf,        \* the kinds of tool a name has a term of
    PathLike,       \* keys that contain "path" or "file"
    SessionIds,     \* session_id and agent_id of the session
    MaxUses         \* bound on the calls of the session's methods

ASSUME SessionAssumption ==
    /\ MaxUses \in Nat
    /\ \A call \in ToolCall : call.shape \in
        {"callable", "function", "name", "tool", "object", "command", "path", "text", "action"}

VARIABLES
    active,         \* is_active
    book,           \* the arguments the callers' objects hold by now
    history,        \* how many results history holds
    trail,          \* the session's own audit events
    lastRun,        \* the action verified last and what its tool ran with
    uses            \* how often a method was called

sessionVars == <<active, book, history, trail, lastRun, uses>>

NoRun == [ran |-> FALSE]

SessionInit ==
    /\ active = TRUE
    /\ book = [call \in ToolCall |-> call.own]
    /\ history = 0
    /\ trail = <<>>
    /\ lastRun = NoRun
    /\ uses = 0

-----------------------------------------------------------------------------
(* The kinds of tool in the order they are looked for in a name, and the   *)
(* arguments that may hold the target, the first that is there prevailing. *)
Kinds == <<"shell", "filesystem", "network", "git", "process">>

TargetKeys == [
    shell      |-> <<"command", "cmd", "input">>,
    filesystem |-> <<"path", "file_path", "filename", "target">>,
    network    |-> <<"url", "endpoint", "host">>,
    git        |-> <<"branch", "operation">>,
    process    |-> <<"command_line", "command">>,
    custom     |-> <<"target", "name">>]

KindOf(name) ==
    LET found == {i \in DOMAIN Kinds : Kinds[i] \in TermsOf[name]}
    IN  IF found = {} THEN "custom" ELSE Kinds[Min(found)]

\* The places in keys of those that are among the arguments.
Given(args, keys) == {i \in DOMAIN keys : keys[i] \in DOMAIN args}

(* A shell tool falls back on any argument, a filesystem tool on one with  *)
(* a telling key, and every tool on its name.                              *)
Fallback(kind, name, args) ==
    LET keys == CASE kind = "shell" -> DOMAIN args
                  [] kind = "filesystem" -> DOMAIN args \cap PathLike
                  [] OTHER -> {}
    IN  IF keys = {} THEN name ELSE args[CHOOSE k \in keys : TRUE]

TargetOf(kind, name, args) ==
    LET given == Given(args, TargetKeys[kind])
    IN  IF given = {} THEN Fallback(kind, name, args)
        ELSE args[TargetKeys[kind][Min(given)]]

(* The keys taken out before the factory is called with the rest; the      *)
(* factories put the target and a git operation back.                      *)
Taken(kind) ==
    CASE kind = "filesystem" -> {"operation"} \cup ToSet(TargetKeys[kind])
      [] kind = "git" -> {}
      [] OTHER -> ToSet(TargetKeys[kind])

(* Action.shell, filesystem, network, git and process                      *)
Factory(kind, target, args) ==
    [type |-> kind, target |-> target, session |-> SessionIds, params |-> args]

(* The factories have parameters of these names.                           *)
Collides(kind, args) ==
    kind # "custom" /\ DOMAIN args \cap {"session_id", "agent_id", "context"} # {}

(* _infer_action_from_name_and_args                                        *)
Infer(name, args) ==
    LET kind == KindOf(name) IN
    IF kind = "custom" THEN Factory(kind, TargetOf(kind, name, args), args)
    ELSE Factory(kind, TargetOf(kind, name, args),
                 [k \in DOMAIN args \ Taken(kind) |-> args[k]])

\* args with kwargs added: what both name is as in kwargs.
Updated(args, kwargs) ==
    [k \in DOMAIN args \cup DOMAIN kwargs |->
        IF k \in DOMAIN kwargs THEN kwargs[k] ELSE args[k]]

MutantMerged(call, kwargs) ==
    IF call.shape = "callable" THEN kwargs ELSE Updated(kwargs, book[call])

(* args.update(kwargs): a callable has no arguments of its own.            *)
Merged(call, kwargs) ==
    IF call.shape = "callable" THEN kwargs ELSE Updated(book[call], kwargs)

(* map_to_action; an Action without ids is given the session's.            *)
MapToAction(call, kwargs) ==
    CASE call.shape = "action" ->
            IF call.own.session_id = "" \/ call.own.agent_id = ""
            THEN Factory(call.name, call.own.target, call.own)
            ELSE [Factory(call.name, call.own.target, call.own) EXCEPT
                    !.session = <<call.own.session_id, call.own.agent_id>>]
      [] call.shape = "command" ->
            LET args == Merged(call, kwargs) IN
            Factory("shell", TargetOf("shell", call.name, call.own),
                    [k \in DOMAIN args \ {"command", "cmd"} |-> args[k]])
      [] call.shape = "path" ->
            LET args == Merged(call, kwargs) IN
            Factory("filesystem", call.own.path,
                    [k \in DOMAIN args \ {"path", "operation"} |-> args[k]])
      [] call.shape = "text" ->
            Factory("shell", call.name, [k \in DOMAIN kwargs \ {"command"} |-> kwargs[k]])
      [] OTHER -> Infer(call.name, Merged(call, kwargs))

(* The arguments of these shapes are updated where the caller keeps them.  *)
UpdatesArguments(call) == call.shape \in {"function", "name", "tool", "object"}

Mapped(call, kwargs) ==
    book' = IF UpdatesArguments(call) THEN [book EXCEPT ![call] = Merged(call, kwargs)] ELSE book

MapRaises(call, kwargs) ==
    CASE call.shape = "action" -> FALSE
      [] call.shape \in {"command", "path"} -> Collides("shell", Merged(call, kwargs))
      [] call.shape = "text" -> Collides("shell", kwargs)
      [] OTHER -> Collides(KindOf(call.name), Merged(call, kwargs))

-----------------------------------------------------------------------------
Uses == uses < MaxUses /\ uses' = uses + 1

(* execute: a callable, or the "func" of a dict, is run with the keywords  *)
(* of this call only, another execute_fn with the action it is given.      *)
RunsKeywords(shape) == shape \in {"callable", "function", "name", "tool"}

Ran(call, action, given, with) ==
    [ran |-> TRUE, shape |-> call.shape, action |-> action, given |-> given, with |-> with]

Execute(call, kwargs, permitted) ==
    LET action == MapToAction(call, kwargs) IN
    /\ Uses
    /\ Mapped(call, kwargs)
    /\ IF permitted /\ ~MapRaises(call, kwargs)
       THEN /\ history' = history + 1
            /\ lastRun' = Ran(call, action, Merged(call, kwargs),
                               IF RunsKeywords(call.shape) THEN kwargs ELSE action.params)
       ELSE lastRun' = NoRun /\ UNCHANGED history
    /\ UNCHANGED <<active, trail>>

(* check and observe map the call as execute does, and log no history.     *)
Inspect(call, kwargs) ==
    /\ Uses
    /\ Mapped(call, kwargs)
    /\ lastRun' = NoRun
    /\ UNCHANGED <<active, history, trail>>

(* wrap_tool: the parameters that are bound, defaults included, are both   *)
(* the arguments and the keywords of a call that nobody else holds.        *)
Wrapped(name, kwargs, defaults, permitted) ==
    LET bound == Updated(defaults, kwargs)
        action == Infer(name, bound)
    IN  /\ Uses
        /\ IF permitted /\ ~Collides(KindOf(name), bound)
           THEN /\ history' = history + 1
                /\ lastRun' = Ran([shape |-> "name"], action, bound, bound)
           ELSE lastRun' = NoRun /\ UNCHANGED history
        /\ UNCHANGED <<active, book, trail>>

Closing == IF active THEN <<<<"closed", history>>>> ELSE <<>>

Enter ==
    /\ Uses
    /\ active' = TRUE
    /\ trail' = Append(trail, <<"started", history>>)
    /\ UNCHANGED <<book, history, lastRun>>

(* __exit__: a block or a review that left the body is not an error.       *)
Exit(raised) ==
    /\ Uses
    /\ trail' = trail \o (IF raised = "other" THEN <<<<"error", history>>>> ELSE <<>>) \o Closing
    /\ active' = FALSE
    /\ UNCHANGED <<book, history, lastRun>>

Close ==
    /\ Uses /\ active
    /\ active' = FALSE
    /\ trail' = trail \o Closing
    /\ UNCHANGED <<book, history, lastRun>>

Record ==
    /\ Uses
    /\ trail' = Append(trail, <<"event", history>>)
    /\ UNCHANGED <<active, book, history, lastRun>>

SessionNext ==
    \/ \E call \in ToolCall, kwargs \in Keywords :
        \/ \E permitted \in BOOLEAN : Execute(call, kwargs, permitted)
        \/ Inspect(call, kwargs)
    \/ \E name \in DOMAIN TermsOf, kwargs \in Keywords, defaults \in Defaults, permitted \in BOOLEAN :
        Wrapped(name, kwargs, defaults, permitted)
    \/ Enter \/ Close \/ Record
    \/ \E raised \in {"nothing", "blocked", "review", "other"} : Exit(raised)

SessionSpec == SessionInit /\ [][SessionNext]_sessionVars

-----------------------------------------------------------------------------
(* An argument the verified action shows, as the target or a parameter;    *)
(* and one it does not: a second name for the target beside the one that   *)
(* prevailed, or the operation of a file tool, which is read from its name.*)
Shows(action, k, v) ==
    \/ k \in DOMAIN action.params /\ action.params[k] = v
    \/ action.target = v

Displaced(action, args, k) ==
    \/ LET given == Given(args, TargetKeys[action.type]) IN
       \E i, j \in given : j < i /\ TargetKeys[action.type][i] = k
    \/ action.type = "filesystem" /\ k = "operation"

(* Whatever the arguments that earlier calls left in a caller's tool call, *)
(* a tool runs with arguments that the action verified for this very call  *)
(* shows, but for those that _infer_action_from_name_and_args displaces.   *)
RunsWhatWasVerified ==
    lastRun.ran /\ RunsKeywords(lastRun.shape) =>
        \A k \in DOMAIN lastRun.with :
            \/ Shows(lastRun.action, k, lastRun.with[k])
            \/ Displaced(lastRun.action, lastRun.given, k)
=============================================================================
