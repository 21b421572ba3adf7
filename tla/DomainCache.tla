------------------------------ MODULE DomainCache ------------------------------
(***************************************************************************)
(* The cache of domain packs: DomainPackLoader (engine/config/loader.py)   *)
(* and what the handlers build from the specs it returns.                  *)
(*                                                                         *)
(* load_domain holds a threading.Lock from the look-up to the end of the   *)
(* read, so the callers -- the event loop's thread and the workers of      *)
(* asyncio.to_thread -- load one at a time.  The operator who edits        *)
(* spec.yaml takes no lock: an edit may fall between the stat that gives   *)
(* the mtime and the read that gives the content.  A task may be cancelled *)
(* wherever it awaits; its worker thread cannot, and runs on.              *)
(*                                                                         *)
(* Abstractions: the content of a file is the number of its edits; every   *)
(* edit gives it a later mtime; an entry is fresh while it is younger than *)
(* the TTL, and the oldest stamp expires first.                            *)
(***************************************************************************)
EXTENDS Naturals, FiniteSets

CONSTANTS
  Domains,   \* domain identifiers whose spec.yaml exists
  Callers,   \* threads and tasks that load specs
  MaxSize,   \* _max_size
  Edited,    \* the domains whose file the operator edits
  MaxEdits,  \* bound on the edits of one file
  None       \* no caller, no entry

ASSUME CacheAssumption ==
  /\ IsFiniteSet(Domains) /\ Edited \subseteq Domains
  /\ MaxSize \in Nat \ {0} /\ MaxEdits \in Nat
  /\ None \notin Callers \cup Domains \cup Nat

VARIABLES
  file,    \* per domain: content, mtime and validity of spec.yaml
  entry,   \* _cache without its stamps
  before,  \* the order of the stamps cached_at: pairs <<older, newer>>
  fresh,   \* entries younger than the TTL
  lock,    \* holder of _lock while it reads a file
  gate,    \* _async_locks: per domain the holder, or None
  pc,      \* per caller: idle, queued for the gate, in a worker, or reading
  abandoned, \* callers whose task was cancelled while its worker runs on
  goal,    \* per caller: the domain it wants, or None
  seen,    \* per caller: mtime of its stat, and the content at that time, or Absent
  checked, \* history: content when the entry was last stamped
  served,  \* history: the newest content given to any caller
  built    \* content from which the domain's ComplianceEngine was built

cacheVars == <<entry, before, fresh, checked>>
callerVars == <<lock, gate, pc, abandoned, goal, seen>>
vars == <<file, entry, before, fresh, lock, gate, pc, abandoned, goal, seen,
          checked, served, built>>

Versions == 0..MaxEdits
File == [content : Versions, mtime : Versions, ok : BOOLEAN]
Entry == [content : Versions, mtime : Versions]
Absent == [content |-> None, mtime |-> None]

Cached == {d \in Domains : entry[d] # Absent}

TypeOK ==
  /\ file \in [Domains -> File]
  /\ entry \in [Domains -> Entry \cup {Absent}]
  /\ before \in SUBSET (Cached \X Cached)
  /\ fresh \in SUBSET Cached
  /\ lock \in Callers \cup {None}
  /\ gate \in [Domains -> Callers \cup {None}]
  /\ pc \in [Callers -> {"idle", "queued", "worker", "reading"}]
  /\ abandoned \in SUBSET Callers
  /\ goal \in [Callers -> Domains \cup {None}]
  /\ seen \in [Callers -> Entry \cup {Absent}]
  /\ checked \in [Domains -> Versions]
  /\ served \in [Domains -> Versions]
  /\ built \in [Domains -> Versions \cup {None}]

Init ==
  /\ file = [d \in Domains |-> [content |-> 0, mtime |-> 0, ok |-> TRUE]]
  /\ entry = [d \in Domains |-> Absent]
  /\ before = {} /\ fresh = {}
  /\ lock = None
  /\ gate = [d \in Domains |-> None]
  /\ pc = [c \in Callers |-> "idle"] /\ abandoned = {}
  /\ goal = [c \in Callers |-> None]
  /\ seen = [c \in Callers |-> Absent]
  /\ checked = [d \in Domains |-> 0]
  /\ served = [d \in Domains |-> 0]
  /\ built = [d \in Domains |-> None]

(***************************************************************************)
(* The operator and the clock.                                             *)
(***************************************************************************)
Edit(d) ==
  /\ file[d].content < MaxEdits
  /\ \E ok \in BOOLEAN :
       file' = [file EXCEPT ![d] = [content |-> @.content + 1, mtime |-> @.mtime + 1, ok |-> ok]]
  /\ UNCHANGED <<cacheVars, callerVars, served, built>>

Expire(d) ==
  /\ d \in fresh
  /\ \A k \in fresh : <<k, d>> \notin before
  /\ fresh' = fresh \ {d}
  /\ UNCHANGED <<file, entry, before, checked, callerVars, served, built>>

\* invalidate(d), and invalidate() with every cached domain.
Invalidate(S) ==
  /\ lock = None
  /\ S # {}
  /\ entry' = [d \in Domains |-> IF d \in S THEN Absent ELSE entry[d]]
  /\ before' = {p \in before : p[1] \notin S /\ p[2] \notin S}
  /\ fresh' = fresh \ S
  /\ UNCHANGED <<file, checked, callerVars, served, built>>

(***************************************************************************)
(* Parts of load_domain.                                                   *)
(***************************************************************************)
\* A caller may run load_domain(d): any idle one, or the worker of a task
\* that has passed the gate of d.
MayLoad(c, d) ==
  /\ lock = None
  /\ pc[c] = "idle" \/ (pc[c] = "worker" /\ goal[c] = d)

\* The entry of d gets the newest stamp and a full TTL.
Stamp(d, others) ==
  /\ before' = {p \in before : p[1] \in others /\ p[2] \in others} \cup (others \X {d})
  /\ fresh' = (fresh \cap others) \cup {d}

\* Mutant: a caller that is done keeps the gate.
LeaveKeepsGate(c) ==
  /\ pc' = [pc EXCEPT ![c] = "idle"]
  /\ goal' = [goal EXCEPT ![c] = None]
  /\ seen' = [seen EXCEPT ![c] = Absent]
  /\ abandoned' = abandoned \ {c}
  /\ UNCHANGED gate

\* The caller is done and leaves the gate, if it held one.
Leave(c) ==
  /\ pc' = [pc EXCEPT ![c] = "idle"]
  /\ gate' = [d \in Domains |-> IF gate[d] = c THEN None ELSE gate[d]]
  /\ goal' = [goal EXCEPT ![c] = None]
  /\ seen' = [seen EXCEPT ![c] = Absent]
  /\ abandoned' = abandoned \ {c}

\* The handler gets its spec, unless it was cancelled; _get_compliance_engine
\* builds an engine from the first one it ever sees.
Serve(c, d, content) ==
  IF c \in abandoned THEN UNCHANGED <<served, built>>
  ELSE /\ served' = [served EXCEPT ![d] = IF content > @ THEN content ELSE @]
       /\ built' = [built EXCEPT ![d] = IF @ = None THEN content ELSE @]

\* A fresh entry is returned as it is.
Hit(c, d) ==
  /\ MayLoad(c, d)
  /\ d \in fresh
  /\ Leave(c)
  /\ Serve(c, d, entry[d].content)
  /\ UNCHANGED <<file, cacheVars, lock>>

\* Mutant: an expired entry is trusted without asking the file.
RevalidateBlindly(c, d) ==
  /\ MayLoad(c, d)
  /\ d \in Cached \ fresh
  /\ Stamp(d, Cached \ {d})
  /\ checked' = [checked EXCEPT ![d] = file[d].content]
  /\ Leave(c)
  /\ Serve(c, d, entry[d].content)
  /\ UNCHANGED <<file, entry, lock>>

\* An expired entry whose file has not changed is stamped again.
Revalidate(c, d) ==
  /\ MayLoad(c, d)
  /\ d \in Cached \ fresh
  /\ entry[d].mtime >= file[d].mtime
  /\ Stamp(d, Cached \ {d})
  /\ checked' = [checked EXCEPT ![d] = file[d].content]
  /\ Leave(c)
  /\ Serve(c, d, entry[d].content)
  /\ UNCHANGED <<file, entry, lock>>

\* No entry, or the file is newer: its mtime is taken and the read begins.
StartRead(c, d) ==
  /\ MayLoad(c, d)
  /\ d \notin fresh
  /\ d \in Cached => entry[d].mtime < file[d].mtime
  /\ lock' = c
  /\ pc' = [pc EXCEPT ![c] = "reading"]
  /\ goal' = [goal EXCEPT ![c] = d]
  /\ seen' = [seen EXCEPT ![c] = [content |-> file[d].content, mtime |-> file[d].mtime]]
  /\ UNCHANGED <<file, cacheVars, gate, abandoned, served, built>>

\* Who makes room for d: nobody, or the entry with the oldest stamp.
Evicted(d) ==
  IF d \in Cached \/ Cardinality(Cached) < MaxSize
  THEN {}
  ELSE {k \in Cached : \A j \in Cached : <<j, k>> \notin before}

\* The content is what the file holds now; the mtime is the earlier stat.
Keep(d, content, mtime, others) ==
  /\ entry' = [k \in Domains |-> IF k = d THEN [content |-> content, mtime |-> mtime]
                                 ELSE IF k \in others THEN entry[k] ELSE Absent]
  /\ Stamp(d, others)

\* Mutant: the first entry of a domain wins.
ReadOkKeepsOldEntry(c) ==
  LET d == goal[c] IN
  /\ pc[c] = "reading"
  /\ file[d].ok
  /\ Keep(d, IF d \in Cached THEN entry[d].content ELSE file[d].content,
          seen[c].mtime, (Cached \ Evicted(d)) \ {d})
  /\ lock' = None
  /\ Leave(c)
  /\ Serve(c, d, file[d].content)
  /\ UNCHANGED <<file, checked>>

ReadOk(c) ==
  LET d == goal[c] IN
  /\ pc[c] = "reading"
  /\ file[d].ok
  /\ Keep(d, file[d].content, seen[c].mtime, (Cached \ Evicted(d)) \ {d})
  /\ checked' = [checked EXCEPT ![d] = seen[c].content]
  /\ lock' = None
  /\ Leave(c)
  /\ Serve(c, d, file[d].content)
  /\ UNCHANGED file

\* DomainSpecError: nothing is cached, the old entry stays and stays expired.
ReadFails(c) ==
  /\ pc[c] = "reading"
  /\ ~file[goal[c]].ok
  /\ lock' = None
  /\ Leave(c)
  /\ UNCHANGED <<file, cacheVars, served, built>>

(***************************************************************************)
(* load_domain_async: a fresh entry is returned at once (Hit); otherwise   *)
(* one task per domain passes the gate, looks again, and sends a worker.   *)
(***************************************************************************)
Queue(c, d) ==
  /\ lock = None
  /\ pc[c] = "idle"
  /\ d \notin fresh
  /\ pc' = [pc EXCEPT ![c] = "queued"]
  /\ goal' = [goal EXCEPT ![c] = d]
  /\ UNCHANGED <<file, cacheVars, lock, gate, abandoned, seen, served, built>>

\* Someone else has loaded it meanwhile.
PassGateToHit(c) ==
  /\ pc[c] = "queued"
  /\ lock = None /\ gate[goal[c]] = None
  /\ goal[c] \in fresh
  /\ Leave(c)
  /\ Serve(c, goal[c], entry[goal[c]].content)
  /\ UNCHANGED <<file, cacheVars, lock>>

\* Mutant: the worker is sent without waiting for the gate.
PassGateOccupied(c) ==
  /\ pc[c] = "queued"
  /\ lock = None
  /\ goal[c] \notin fresh
  /\ gate' = [gate EXCEPT ![goal[c]] = c]
  /\ pc' = [pc EXCEPT ![c] = "worker"]
  /\ UNCHANGED <<file, cacheVars, lock, abandoned, goal, seen, served, built>>

PassGate(c) ==
  /\ pc[c] = "queued"
  /\ lock = None /\ gate[goal[c]] = None
  /\ goal[c] \notin fresh
  /\ gate' = [gate EXCEPT ![goal[c]] = c]
  /\ pc' = [pc EXCEPT ![c] = "worker"]
  /\ UNCHANGED <<file, cacheVars, lock, abandoned, goal, seen, served, built>>

(***************************************************************************)
(* The task is cancelled where it awaits: at the gate, or its worker.  A   *)
(* worker that has not begun is cancelled with it; one that has begun runs *)
(* to its end, for nobody, while the gate is already given back.           *)
(***************************************************************************)
CancelWaiting(c) ==
  /\ pc[c] \in {"queued", "worker"} /\ c \notin abandoned
  /\ Leave(c)
  /\ UNCHANGED <<file, cacheVars, lock, served, built>>

CancelWorking(c) ==
  /\ pc[c] \in {"worker", "reading"} /\ gate[goal[c]] = c
  /\ abandoned' = abandoned \cup {c}
  /\ gate' = [gate EXCEPT ![goal[c]] = None]
  /\ UNCHANGED <<file, cacheVars, lock, pc, goal, seen, served, built>>

Load(c, d) == Hit(c, d) \/ Revalidate(c, d) \/ StartRead(c, d)
EndRead(c) == ReadOk(c) \/ ReadFails(c)
PassesGate(c) == PassGateToHit(c) \/ PassGate(c)

Next ==
  \/ \E d \in Edited : Edit(d)
  \/ \E d \in Domains : Expire(d) \/ Invalidate({d})
  \/ Invalidate(Cached)
  \/ \E c \in Callers, d \in Domains : Load(c, d) \/ Queue(c, d)
  \/ \E c \in Callers : EndRead(c) \/ PassesGate(c) \/ CancelWaiting(c) \/ CancelWorking(c)

Spec == Init /\ [][Next]_vars

\* The next step of a caller in the middle of a load.
GoesOn(c) == EndRead(c) \/ PassesGate(c) \/ (pc[c] = "worker" /\ Load(c, goal[c]))

(***************************************************************************)
(* Fairness: a read ends, whoever waits for a lock or a gate gets it in    *)
(* turn, time passes, and requests for the domains that are edited keep    *)
(* coming.                                                                 *)
(***************************************************************************)
Fairness ==
  /\ WF_vars(\E d \in Domains : Expire(d))
  /\ \A d \in Edited : SF_vars(\E c \in Callers : Load(c, d))
  /\ \A c \in Callers : SF_vars(GoesOn(c))

FairSpec == Spec /\ Fairness
-----------------------------------------------------------------------------
(***************************************************************************)
(* An out-of-date entry can be told from its mtime, also when the file was *)
(* edited between the stat and the read: it is never taken for current.    *)
(***************************************************************************)
StaleIsDetectable ==
  \A d \in Cached : entry[d].content < file[d].content => entry[d].mtime < file[d].mtime

(***************************************************************************)
(* An answer is at least as new as the file was when its entry was last    *)
(* stamped: staleness is limited by the TTL.                               *)
(***************************************************************************)
StaleOnlyWithinTTL == \A d \in Cached : checked[d] <= entry[d].content

(***************************************************************************)
(* One worker per domain: a burst of tasks that miss does not pile up      *)
(* threads behind the lock.  A second worker of a domain is sent only when *)
(* the task of the first was cancelled.                                    *)
(***************************************************************************)
NoStampede ==
  \A c1, c2 \in Callers \ abandoned :
    pc[c1] = "worker" /\ pc[c2] = "worker" /\ goal[c1] = goal[c2] => c1 = c2

(***************************************************************************)
(* No caller gets an older spec than another one got before, through       *)
(* evictions, invalidations, failed reloads and concurrent edits.          *)
(***************************************************************************)
NeverServesOlder ==
  /\ \A d \in Cached : served[d] <= entry[d].content
  /\ \A d \in Domains : served[d] <= file[d].content

(***************************************************************************)
(* Hot reload: the last edit of a file, if it is valid, replaces every     *)
(* older entry.                                                            *)
(***************************************************************************)
HotReload ==
  \A d \in Edited :
    file[d].content = MaxEdits /\ file[d].ok
      ~> [](d \in Cached => entry[d].content = MaxEdits)

(***************************************************************************)
(* Whoever waits for the gate is answered or cancelled, and its worker     *)
(* ends: cancelled holders leave no gate locked.                           *)
(***************************************************************************)
QueuedIsAnswered == \A c \in Callers : pc[c] = "queued" ~> pc[c] = "idle"

(***************************************************************************)
(* docs/FEATURE_FLAGS.md: "the next request after 30 seconds will pick up  *)
(* the change", also the compliance section of the spec.                   *)
(***************************************************************************)
ComplianceFollowsFile ==
  \A d \in Edited :
    file[d].content = MaxEdits /\ file[d].ok ~> built[d] = MaxEdits
=============================================================================
