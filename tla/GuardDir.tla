------------------------------ MODULE GuardDir ------------------------------
(***************************************************************************)
(* The guard directory behind which processes change a shared record: the  *)
(* session leases (core/session_lease.rs) and the supervisor registry      *)
(* (modes/daemon/daemon_supervisor_ownership.rs) both create a directory,  *)
(* work, and remove it again.  One system call is one step.                *)
(*                                                                         *)
(*  - mkdir succeeds for one process at a time;                            *)
(*  - a guard older than five seconds is taken for one whose maker died,   *)
(*    and is removed by whoever waits, in two steps: look, then remove;    *)
(*  - a process remembers the identity of the guard it made (its mtime or  *)
(*    its inode), read in a step of its own after mkdir.                   *)
(*                                                                         *)
(* A slow process can therefore lose its guard while it works: `evicted'   *)
(* records that this has happened.                                         *)
(***************************************************************************)
EXTENDS Naturals

CONSTANTS
    Procs,      \* the processes that meet at the guard
    Stamps,     \* identities a guard directory can have; they may recur
    None

ASSUME NoneAssumption == None \notin Procs /\ None \notin Stamps

VARIABLES
    guard,      \* identity of the directory at the guard path, or None
    aged,       \* that directory is older than the stale window
    section,    \* where each process is with respect to the guard
    mine,       \* the identity each process has read for its own guard
    keeper,     \* history: the living process that made the present guard
    evicted     \* history: a guard was removed that was not the remover's to remove

guardVars == <<guard, aged, section, mine, keeper, evicted>>

Sections == {"out", "waiting", "evicting", "made", "in", "leaving"}

GuardTypeOK ==
    /\ guard \in Stamps \cup {None}
    /\ aged \in BOOLEAN
    /\ section \in [Procs -> Sections]
    /\ mine \in [Procs -> Stamps \cup {None}]
    /\ keeper \in Procs \cup {None}
    /\ evicted \in BOOLEAN

GuardInit ==
    /\ guard = None
    /\ aged = FALSE
    /\ section = [p \in Procs |-> "out"]
    /\ mine = [p \in Procs |-> None]
    /\ keeper = None
    /\ evicted = FALSE

\* The process has made a guard and has not finished with it.
Inside(p) == section[p] \in {"made", "in", "leaving"}

MoveTo(p, s) == section' = [section EXCEPT ![p] = s]

\* The directory goes, on behalf of p.
Unlink(p) ==
    /\ guard' = None
    /\ aged' = FALSE
    /\ keeper' = None
    /\ evicted' = (evicted \/ keeper \notin {p, None})

MakeGuard(p) ==
    /\ guard = None
    /\ \E s \in Stamps : guard' = s
    /\ aged' = FALSE
    /\ keeper' = p
    /\ MoveTo(p, "made")
    /\ UNCHANGED <<mine, evicted>>

Make(p) == section[p] = "waiting" /\ MakeGuard(p)

\* The stat that follows a successful mkdir: it sees whatever is there now.
Identify(p) ==
    /\ section[p] = "made"
    /\ mine' = [mine EXCEPT ![p] = guard]
    /\ MoveTo(p, "in")
    /\ UNCHANGED <<guard, aged, keeper, evicted>>

\* mkdir failed, and the guard's mtime is older than the window.
JudgeStale(p) ==
    /\ section[p] = "waiting"
    /\ guard # None /\ aged
    /\ MoveTo(p, "evicting")
    /\ UNCHANGED <<guard, aged, mine, keeper, evicted>>

\* The removal names the path, not the directory that was judged.
RemoveStale(p) ==
    /\ section[p] = "evicting"
    /\ Unlink(p)
    /\ MoveTo(p, "waiting")
    /\ UNCHANGED mine

\* The retries are used up, possibly by the removal of a stale guard, or mkdir
\* fails for a reason other than a guard.
GiveUp(p) ==
    /\ section[p] = "waiting"
    /\ MoveTo(p, "out")
    /\ UNCHANGED <<guard, aged, mine, keeper, evicted>>

\* More than the stale window passes.
Age ==
    /\ guard # None /\ ~aged
    /\ aged' = TRUE
    /\ UNCHANGED <<guard, section, mine, keeper, evicted>>

\* A process dies; what it has made stays.
GuardCrash(p) ==
    /\ MoveTo(p, "out")
    /\ mine' = [mine EXCEPT ![p] = None]
    /\ keeper' = IF keeper = p THEN None ELSE keeper
    /\ UNCHANGED <<guard, aged, evicted>>

-----------------------------------------------------------------------------

\* Who is inside made the guard that is there, unless somebody was evicted: the
\* invariant that clients of the guard build on.
GuardKept ==
    /\ keeper # None => guard # None
    /\ evicted \/ \A p \in Procs : Inside(p) => keeper = p
=============================================================================
