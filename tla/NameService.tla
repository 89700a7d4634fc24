----------------------------- MODULE NameService -----------------------------
(***************************************************************************)
(* What the servers of Octopus promise about names.  Paths are a set; each *)
(* client has at most one call outstanding, and a call takes effect once,  *)
(* in one step between its arrival and its reply.  A call that creates a   *)
(* path succeeds only if there is none, one that removes it only if there  *)
(* is one, and a call that looks a path up tells exactly whether it is     *)
(* there.  Creating and removing may fail for other reasons (the parent, a *)
(* full table, a directory that is not empty) and then change nothing.     *)
(***************************************************************************)
CONSTANTS Client, Path, Root

VARIABLES paths,  \* the paths that exist
          call    \* of every client: what it asks for, and the outcome

Kinds == {"create", "remove", "look up", "other"}
Calls == [kind : Kinds, path : Path]
NoCall == [state |-> "none"]
Asked(m) == [state |-> "asked", asks |-> m]
Answered(m, ok) == [state |-> "answered", asks |-> m, ok |-> ok]

Init ==
    /\ paths = {Root}
    /\ call = [c \in Client |-> NoCall]

\* A new call, also right after the answer of the last one.
Ask(c) ==
    /\ call[c].state # "asked" /\ call'[c].state = "asked"
    /\ \E m \in Calls : call' = [call EXCEPT ![c] = Asked(m)]
    /\ UNCHANGED paths

\* The set of paths after a call that may succeed.
Effect(m) ==
    CASE m.kind = "create" -> paths \cup {m.path}
      [] m.kind = "remove" -> paths \ {m.path}
      [] OTHER -> paths

Possible(m, ok) ==
    CASE m.kind = "create" -> ok => m.path \notin paths
      [] m.kind = "remove" -> ok => m.path \in paths
      [] m.kind = "look up" -> ok <=> m.path \in paths
      [] OTHER -> TRUE

Answer(c) ==
    /\ call[c].state = "asked"
    /\ \E ok \in BOOLEAN :
         /\ Possible(call[c].asks, ok)
         /\ call' = [call EXCEPT ![c] = Answered(call[c].asks, ok)]
         /\ paths' = IF ok THEN Effect(call[c].asks) ELSE paths

Leave(c) ==
    /\ call[c].state = "answered"
    /\ call' = [call EXCEPT ![c] = NoCall]
    /\ UNCHANGED paths

Next == \E c \in Client : Ask(c) \/ Answer(c) \/ Leave(c)

Spec == Init /\ [][Next]_<<paths, call>>
==============================================================================
