------------------------------- MODULE Unshare -------------------------------
(* pkg/unshare: a process runs a copy of itself in new namespaces.           *)
(* Start() (unshare_linux.go) and the copy's constructor                      *)
(* _containers_unshare() (unshare.c) synchronise over two pipes: the child    *)
(* writes its PID, the parent writes the ID maps of the child's user          *)
(* namespace, and the child goes on when the parent closes the other pipe     *)
(* without having written an error to it.  Any system call may fail and       *)
(* either process may be killed.  The text of errors is left out.             *)
EXTENDS Integers, Sequences, SequencesExt

CONSTANTS
    SubIDs,     \* what /etc/subuid and /etc/subgid may grant: sequences of [host, size]
    HostMap     \* /proc/self/uid_map and gid_map of the parent

VARIABLES
    cmd,        \* the Cmd: flags and mappings
    parent,     \* where the parent is in MaybeReexecUsingUserNamespace and Start
    child,      \* where the child is
    pidEnds,    \* the processes that hold a write end of the PID pipe
    pidText,    \* the PID was written to the pipe
    continue,   \* the pipe the child waits on: "open", "error" or "closed"
    setgroups,  \* /proc/<pid>/setgroups
    gidMap,     \* /proc/<pid>/gid_map, <<>> until it is written
    uidMap,
    faults      \* the system calls that failed, and the processes killed

uvars == <<cmd, parent, child, pidEnds, pidText, continue, setgroups, gidMap, uidMap, faults>>

-----------------------------------------------------------------------------
\* The command that MaybeReexecUsingUserNamespace builds

Me == 7                                     \* the UID and GID of an unprivileged caller

\* Mutant: the range does not advance by the size of the range before it.
consecutiveByOne(me, ranges) ==
    LET all == <<[host |-> me, size |-> 1]>> \o ranges
    IN  [i \in 1..Len(all) |-> [container |-> i - 1, host |-> all[i].host, size |-> all[i].size]]

\* "Map our UID and GID, then the subuid and subgid ranges, consecutively, starting at 0"
Consecutive(me, ranges) ==
    LET all == <<[host |-> me, size |-> 1]>> \o ranges
    IN  [i \in 1..Len(all) |->
            [container |-> FoldLeft(LAMBDA n, r : n + r.size, 0, SubSeq(all, 1, i - 1)),
             host |-> all[i].host, size |-> all[i].size]]

\* "Just reuse them": the identity on the IDs the parent itself has.
Reuse(maps) == [i \in 1..Len(maps) |-> [maps[i] EXCEPT !.host = maps[i].container]]

ReexecCmd(uidNum, evenForRoot, subuid, subgid) ==
    LET own == uidNum # 0 \/ evenForRoot
    IN  [userns |-> TRUE, newmap |-> uidNum # 0, setgroups |-> TRUE, oom |-> FALSE, hook |-> FALSE,
         uid |-> IF own THEN Consecutive(uidNum, subuid) ELSE Reuse(HostMap),
         gid |-> IF own THEN Consecutive(uidNum, subgid) ELSE Reuse(HostMap)]

\* The other users of Cmd set its fields themselves; maps they leave out are the host's.
OtherCmds == [userns : BOOLEAN, newmap : {FALSE}, setgroups : BOOLEAN, oom : BOOLEAN, hook : BOOLEAN,
              uid : {<<>>}, gid : {<<>>}]

MaybeReexecUsingUserNamespace ==
    \/ \E uidNum \in {0, Me}, even \in BOOLEAN, u, g \in SubIDs : cmd = ReexecCmd(uidNum, even, u, g)
    \/ cmd \in OtherCmds

Init ==
    /\ MaybeReexecUsingUserNamespace
    /\ parent = "pipes" /\ child = "none"
    /\ pidEnds = {} /\ pidText = FALSE /\ continue = "none"
    /\ setgroups = "allow" /\ gidMap = <<>> /\ uidMap = <<>>
    /\ faults = {}

-----------------------------------------------------------------------------
\* Start(), in the parent

Gone == {"exited", "killed"}
ParentDone == {"failed", "exit", "killed"}

\* Mutant: the error is returned and the child is not told.
failQuietly(what) ==
    /\ faults' = faults \cup {what}
    /\ parent' = "failed"
    /\ continue' = "closed"
    /\ UNCHANGED <<cmd, child, pidEnds, pidText, setgroups, gidMap, uidMap>>

\* An error after the child was started is written to the pipe the child waits on;
\* the deferred function closes the pipe.  newuidmap and newgidmap are told apart from
\* other faults: their failure is not an error of Start.
Fail(what) ==
    /\ faults' = faults \cup {what}
    /\ parent' = "failed"
    /\ continue' = "error"
    /\ UNCHANGED <<cmd, child, pidEnds, pidText, setgroups, gidMap, uidMap>>

Goto(pc) == parent' = pc /\ UNCHANGED <<cmd, child, pidEnds, pidText, continue, faults>>

\* A process that is gone has no files in /proc that can be written.
CanWrite == child \notin Gone

\* Mutant: the parent keeps its own write end of the PID pipe.
startKeepingEnds ==
    /\ parent = "pipes"
    /\ \/ /\ parent' = "readpid" /\ child' = "unshare"
          /\ pidEnds' = {"parent", "child"} /\ continue' = "open"
          /\ UNCHANGED faults
       \/ /\ parent' = "failed" /\ faults' = faults \cup {"start"}
          /\ UNCHANGED <<child, pidEnds, continue>>
    /\ UNCHANGED <<cmd, pidText, setgroups, gidMap, uidMap>>

\* The pipes, c.Cmd.Start(), and "Close the ends of the pipes that the parent doesn't need".
Start ==
    /\ parent = "pipes"
    /\ \/ /\ parent' = "readpid" /\ child' = "unshare"
          /\ pidEnds' = {"child"} /\ continue' = "open"
          /\ UNCHANGED faults
       \/ /\ parent' = "failed" /\ faults' = faults \cup {"start"}
          /\ UNCHANGED <<child, pidEnds, continue>>
    /\ UNCHANGED <<cmd, pidText, setgroups, gidMap, uidMap>>

\* io.Copy(b, pidRead) ends when no process holds the write end; an empty text is no PID.
ReadPid ==
    /\ parent = "readpid"
    /\ pidEnds = {}
    /\ IF pidText THEN /\ Goto(IF cmd.userns THEN "setgroups" ELSE "oom")
                       /\ UNCHANGED <<setgroups, gidMap, uidMap>>
                  ELSE Fail("pid")

\* io.Copy itself fails: "Reading child PID", with nothing written to the pipe.
ReadPidFails ==
    /\ parent = "readpid"
    /\ parent' = "failed" /\ continue' = "closed" /\ faults' = faults \cup {"read"}
    /\ UNCHANGED <<cmd, child, pidEnds, pidText, setgroups, gidMap, uidMap>>

\* "Always set "setgroups"", then the mappings that were not given.
SetGroups ==
    /\ parent = "setgroups"
    /\ \/ /\ CanWrite
          /\ setgroups' = IF cmd.setgroups THEN "allow" ELSE "deny"
          /\ parent' = "gid"
          /\ cmd' = [cmd EXCEPT !.uid = IF @ = <<>> THEN Reuse(HostMap) ELSE @,
                                !.gid = IF @ = <<>> THEN Reuse(HostMap) ELSE @]
          /\ UNCHANGED <<child, pidEnds, pidText, continue, gidMap, uidMap, faults>>
       \/ Fail("setgroups")

\* The kernel: an unprivileged process may write a gid_map only once setgroups is denied,
\* and setgroups may not be denied any more once there is a gid_map.
Single == <<[container |-> 0, host |-> Me, size |-> 1]>>
GidWritable == CanWrite /\ gidMap = <<>> /\ (cmd.newmap => setgroups = "deny")

\* The gid_map by newgidmap(1), which falls back to mapping only the caller's GID, or directly.
Newgidmap ==
    /\ parent = "gid"
    /\ IF cmd.newmap
       THEN \/ /\ CanWrite /\ gidMap' = cmd.gid
               /\ Goto("uid") /\ UNCHANGED <<setgroups, uidMap>>
            \/ /\ parent' = "deny" /\ faults' = faults \cup {"newgidmap"}
               /\ UNCHANGED <<cmd, child, pidEnds, pidText, continue, setgroups, gidMap, uidMap>>
       ELSE Goto(IF cmd.gid = <<>> THEN "uid" ELSE "gidmap") /\ UNCHANGED <<setgroups, gidMap, uidMap>>

\* Mutant: the fallback leaves setgroups as it was.
fallBackAllowing ==
    /\ parent = "deny"
    /\ \/ /\ CanWrite /\ gidMap = <<>>
          /\ cmd' = [cmd EXCEPT !.gid = Single]
          /\ parent' = "gidmap"
          /\ UNCHANGED <<setgroups, child, pidEnds, pidText, continue, gidMap, uidMap, faults>>
       \/ Fail("setgroups")

\* "Falling back to single mapping": setgroups is denied first.
FallBack ==
    /\ parent = "deny"
    /\ \/ /\ CanWrite /\ gidMap = <<>>
          /\ setgroups' = "deny"
          /\ cmd' = [cmd EXCEPT !.gid = Single]
          /\ parent' = "gidmap"
          /\ UNCHANGED <<child, pidEnds, pidText, continue, gidMap, uidMap, faults>>
       \/ Fail("setgroups")

WriteGidMap ==
    /\ parent = "gidmap"
    /\ IF GidWritable
       THEN \/ gidMap' = cmd.gid /\ Goto("uid") /\ UNCHANGED <<setgroups, uidMap>>
            \/ Fail("gid_map")
       ELSE Fail(IF CanWrite THEN "refused" ELSE "gid_map")

Newuidmap ==
    /\ parent = "uid"
    /\ IF cmd.newmap
       THEN \/ /\ CanWrite /\ uidMap' = cmd.uid
               /\ Goto("oom") /\ UNCHANGED <<setgroups, gidMap>>
            \/ /\ parent' = "uidmap" /\ faults' = faults \cup {"newuidmap"}
               /\ cmd' = [cmd EXCEPT !.uid = Single]
               /\ UNCHANGED <<child, pidEnds, pidText, continue, setgroups, gidMap, uidMap>>
       ELSE Goto(IF cmd.uid = <<>> THEN "oom" ELSE "uidmap") /\ UNCHANGED <<setgroups, gidMap, uidMap>>

WriteUidMap ==
    /\ parent = "uidmap"
    /\ \/ CanWrite /\ uidMap' = cmd.uid /\ Goto("oom") /\ UNCHANGED <<setgroups, gidMap>>
       \/ Fail("uid_map")

\* oom_score_adj, then the hook.
OOMScoreAdj ==
    /\ parent = "oom"
    /\ \/ Goto("hook") /\ UNCHANGED <<setgroups, gidMap, uidMap>>
       \/ cmd.oom /\ Fail("oom")

\* The hook, and the return of Start: the deferred function closes the pipe.
Hook ==
    /\ parent = "hook"
    /\ \/ /\ parent' = "wait" /\ continue' = "closed"
          /\ UNCHANGED <<cmd, child, pidEnds, pidText, setgroups, gidMap, uidMap, faults>>
       \/ cmd.hook /\ Fail("hook")

\* Run() waits for the child, and ExecRunnable exits.
ExecRunnable ==
    /\ parent = "wait" /\ child \in Gone
    /\ Goto("exit") /\ UNCHANGED <<setgroups, gidMap, uidMap>>

-----------------------------------------------------------------------------
\* _containers_unshare(), in the child

Step(pc) == child' = pc /\ UNCHANGED <<cmd, parent, pidText, continue, setgroups, gidMap, uidMap, faults>>

\* _exit(1): its ends of the pipes are closed.
Exit == Step("exited") /\ pidEnds' = pidEnds \ {"child"}

ChildUnshare ==
    /\ child = "unshare"
    /\ \/ Step("pid") /\ UNCHANGED pidEnds
       \/ cmd.userns /\ Exit

ChildPid ==
    /\ child = "pid"
    /\ \/ /\ parent \notin ParentDone
          /\ child' = "wait" /\ pidText' = TRUE /\ pidEnds' = pidEnds \ {"child"}
          /\ UNCHANGED <<cmd, parent, continue, setgroups, gidMap, uidMap, faults>>
       \/ Exit

\* Mutant: the child goes on without looking at what it read.
childIgnoresError ==
    /\ child = "wait" /\ continue # "open"
    /\ Step("ids") /\ UNCHANGED pidEnds

\* Only bytes that it reads stop the child; a read that fails is taken as the end of the pipe.
ChildWait ==
    /\ child = "wait"
    /\ \/ continue = "error" /\ Exit
       \/ continue = "closed" /\ Step("ids") /\ UNCHANGED pidEnds
       \/ /\ child' = "ids" /\ faults' = faults \cup {"wait"}
          /\ UNCHANGED <<cmd, parent, pidEnds, pidText, continue, setgroups, gidMap, uidMap>>

\* Mutant: the results of setresgid(0) and setresuid(0) are not looked at.
childKeepsIDs == child = "ids" /\ Step("rest") /\ UNCHANGED pidEnds

\* setsid, setpgrp and the terminal; setresgid(0) and setresuid(0) need the maps.
Maps0(maps) == \E i \in 1..Len(maps) : maps[i].container = 0
ChildIDs ==
    /\ child = "ids"
    /\ \/ /\ cmd.userns => Maps0(gidMap) /\ Maps0(uidMap)
          /\ Step("rest") /\ UNCHANGED pidEnds
       \/ Exit

\* The other namespaces, and containers_reexec().
ChildReexec ==
    /\ child = "rest"
    /\ \/ Step("run") /\ UNCHANGED pidEnds
       \/ Exit

ChildRuns == child = "run" /\ Exit

-----------------------------------------------------------------------------
KillParent ==
    /\ parent \notin ParentDone
    /\ parent' = "killed" /\ faults' = faults \cup {"killed"}
    /\ continue' = IF continue = "open" THEN "closed" ELSE continue
    /\ UNCHANGED <<cmd, child, pidEnds, pidText, setgroups, gidMap, uidMap>>

KillChild ==
    /\ child \notin Gone \cup {"none"}
    /\ child' = "killed" /\ pidEnds' = pidEnds \ {"child"}
    /\ UNCHANGED <<cmd, parent, pidText, continue, setgroups, gidMap, uidMap, faults>>

ParentStep == \/ Start \/ ReadPid \/ ReadPidFails \/ SetGroups \/ Newgidmap \/ FallBack \/ WriteGidMap
              \/ Newuidmap \/ WriteUidMap \/ OOMScoreAdj \/ Hook \/ ExecRunnable
ChildStep == ChildUnshare \/ ChildPid \/ ChildWait \/ ChildIDs \/ ChildReexec \/ ChildRuns

Next == ParentStep \/ ChildStep \/ KillParent \/ KillChild

Spec == Init /\ [][Next]_uvars

-----------------------------------------------------------------------------
\* Type invariant: where the two processes of Start and _containers_unshare may be, and
\* the values of the child's files in /proc.
TypeOK ==
    /\ parent \in ParentDone \cup {"pipes", "readpid", "setgroups", "gid", "deny", "gidmap", "uid",
                                   "uidmap", "oom", "hook", "wait"}
    /\ child \in Gone \cup {"none", "unshare", "pid", "wait", "ids", "rest", "run"}
    /\ continue \in {"none", "open", "error", "closed"}
    /\ setgroups \in {"allow", "deny"}
    /\ child = "none" <=> continue = "none"
    /\ pidEnds \subseteq {"parent", "child"}
    /\ pidText => child \notin {"none", "unshare", "pid"}

\* A child of a Cmd with CLONE_NEWUSER runs only once both its maps were written, even when
\* the parent dies: closing the pipe says "go on", and setresgid and setresuid catch it.
RunsMapped == child = "run" /\ cmd.userns => gidMap # <<>> /\ uidMap # <<>>

\* The child runs only when Start got through all of its steps.  The exceptions are the ones
\* that close the pipe without an error in it (the parent was killed, or could not read the PID)
\* and a child that could not read the pipe.
RunsSetUp ==
    child \in {"ids", "rest", "run"} => parent \in {"wait", "exit"} \/ faults \cap {"killed", "read", "wait"} # {}

\* Start fails for a system call that failed or a child that went away, never because
\* newuidmap or newgidmap did, or because the kernel refuses what Start writes after that.
FallsBack == "refused" \notin faults /\ ("pid" \in faults => child \in Gone)

\* What the maps of a running child say when no step fell back: each container ID is mapped
\* once, the IDs are consecutive from 0, and 0 is the caller ("starting at 0").
MapsConsecutive ==
    \A maps \in {cmd.uid, cmd.gid} : cmd.newmap /\ maps # <<>> =>
        /\ maps[1].container = 0 /\ maps[1].host = Me
        /\ \A i \in 2..Len(maps) : maps[i].container = maps[i - 1].container + maps[i - 1].size

\* Neither process waits for ever: while the parent waits for the end of the PID pipe, only a
\* child that has yet to write to it holds it open, and while the child waits on the other
\* pipe, the parent is on its way to closing it (and is not waiting for the child).
NeitherStuck ==
    /\ parent = "readpid" /\ pidEnds # {} => child \in {"unshare", "pid"}
    /\ child = "wait" /\ continue = "open" => parent \notin ParentDone \cup {"wait"}
=============================================================================
