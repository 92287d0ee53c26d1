------------------------------ MODULE Registry ------------------------------
(***************************************************************************)
(* Which sessions are there?  sessions puts together the records that      *)
(* hooks and register leave, the owners that bridges have saved and the    *)
(* locks that Codex holds on the threads it has open.  It reads them one   *)
(* after the other, while tabs are opened, resumed and closed.  What the   *)
(* records say may be out of date at any time; nothing ever deletes them.  *)
(***************************************************************************)
EXTENDS Naturals, FiniteSets

CONSTANTS
  Sessions,     \* Codex threads
  Custom,       \* those in a Codex home that is not the default one
  MaxTab        \* Codex processes, numbered (their identity) as they are started

ASSUME RegistryAssumption == Custom \subseteq Sessions /\ MaxTab \in Nat

Tabs == 1..MaxTab

VARIABLES
  opened,       \* process -> the threads it has open: one at a time
  living,       \* processes that run
  tabs,         \* processes started
  registration, \* thread -> registry/<thread>.json, as a set of at most one record
  bridgeOwner,  \* thread -> the owner that its bridge's configuration names (0: no bridge)
  registrar,    \* a hook in register
  lister,       \* a command in sessions
  label,        \* history: thread -> the name it was given, unless a hook took it back
  left          \* history: processes and threads they have left for others

registryVars == <<opened, living, tabs, registration, bridgeOwner, registrar, lister, label, left>>

Names == {"default", "given"}
Registrations == [owner : Tabs, name : Names]
ListedRows == [thread : Sessions, owner : Tabs, name : Names]

RegistryTypeOK ==
  /\ opened \in [Tabs -> SUBSET Sessions] /\ living \subseteq Tabs /\ tabs \in 0..MaxTab
  /\ \A s \in Sessions : registration[s] \subseteq Registrations
                          /\ Cardinality(registration[s]) <= 1
  /\ bridgeOwner \in [Sessions -> 0..MaxTab]
  /\ registrar \subseteq [thread : Sessions, owner : Tabs, name : Names, late : BOOLEAN]
  /\ Cardinality(registrar) <= 1
  /\ lister.pc \in {"homes", "locks", "records", "bridges", "rest", "done"}
  /\ lister.locks \subseteq ListedRows /\ lister.rows \subseteq ListedRows
  /\ lister.steady \subseteq Sessions /\ lister.scanned \subseteq Sessions
  /\ label \in [Sessions -> Names] /\ left \subseteq Tabs \X Sessions

\* "scanned" are the threads whose home is looked at for locks; "steady" is history: the
\* threads that had one process and one name since the listing began, while those that
\* have left it ran on.
NotListing == [pc |-> "homes", scanned |-> {}, locks |-> {}, rows |-> {}, steady |-> {}]

RegistryInit ==
  /\ opened = [p \in Tabs |-> {}] /\ living = {} /\ tabs = 0
  /\ registration = [s \in Sessions |-> {}]
  /\ bridgeOwner = [s \in Sessions |-> 0]
  /\ registrar = {} /\ lister = NotListing
  /\ label = [s \in Sessions |-> "default"] /\ left = {}

Unsettle(S) == lister' = [lister EXCEPT !.steady = @ \ S]

-----------------------------------------------------------------------------
(* Codex: a process has one thread open, and no other process has it *)

IsFree(s) == \A p \in Tabs : s \notin opened[p]

TabStarts(s) ==
  /\ tabs < MaxTab /\ IsFree(s)
  /\ tabs' = tabs + 1 /\ living' = living \cup {tabs + 1}
  /\ opened' = [opened EXCEPT ![tabs + 1] = {s}]
  /\ Unsettle({s})
  /\ UNCHANGED <<registration, bridgeOwner, registrar, label, left>>

\* The process goes on with another thread, one of these or not; what it has recorded
\* for the former one remains.
TabLeaves(p, S) ==
  /\ p \in living
  /\ \A s \in S : IsFree(s)
  /\ opened' = [opened EXCEPT ![p] = S]
  /\ left' = (left \cup ({p} \X opened[p])) \ ({p} \X S)
  /\ Unsettle(opened[p] \cup S)
  /\ UNCHANGED <<living, tabs, registration, bridgeOwner, registrar, label>>

TabEnds(p) ==
  /\ p \in living
  /\ living' = living \ {p}
  /\ opened' = [opened EXCEPT ![p] = {}]
  /\ left' = {x \in left : x[1] # p}
  /\ Unsettle(opened[p] \cup {s \in Sessions : <<p, s>> \in left})
  /\ UNCHANGED <<tabs, registration, bridgeOwner, registrar, label>>

-----------------------------------------------------------------------------
(* register, and the owner that start saves *)

StoredName(s) == IF registration[s] = {} THEN "default"
                 ELSE (CHOOSE r \in registration[s] : TRUE).name

\* Mistaken variant: a new process has the default name.
HookLooksAtItsOwn(p) ==
  \E s \in opened[p] :
    /\ registrar = {}
    /\ registrar' = {[thread |-> s, owner |-> p, late |-> FALSE,
                      name |-> IF \E r \in registration[s] : r.owner = p
                               THEN StoredName(s) ELSE "default"]}
    /\ UNCHANGED <<opened, living, tabs, registration, bridgeOwner, lister, label, left>>

\* A hook looks at its process and at the name it is to keep; it may outlive the process.
HookLooks(p) ==
  \E s \in opened[p] :
    /\ registrar = {}
    /\ registrar' = {[thread |-> s, owner |-> p, name |-> StoredName(s), late |-> FALSE]}
    /\ UNCHANGED <<opened, living, tabs, registration, bridgeOwner, lister, label, left>>

HookRegisters ==
  \E r \in registrar :
    /\ registration' = [registration EXCEPT ![r.thread] = {[owner |-> r.owner, name |-> r.name]}]
    /\ IF r.late
         THEN label' = [label EXCEPT ![r.thread] = r.name] /\ Unsettle({r.thread})
         ELSE UNCHANGED <<lister, label>>
    /\ registrar' = {}
    /\ UNCHANGED <<opened, living, tabs, bridgeOwner, left>>

HookCutShort ==
  /\ registrar # {}
  /\ registrar' = {}
  /\ UNCHANGED <<opened, living, tabs, registration, bridgeOwner, lister, label, left>>

\* The command register, with a name; nothing it has read before is written.
GivesName(p) ==
  \E s \in opened[p] :
    /\ registration' = [registration EXCEPT ![s] = {[owner |-> p, name |-> "given"]}]
    /\ label' = [label EXCEPT ![s] = "given"]
    /\ registrar' = {IF r.thread = s THEN [r EXCEPT !.late = TRUE] ELSE r : r \in registrar}
    /\ Unsettle({s})
    /\ UNCHANGED <<opened, living, tabs, bridgeOwner, left>>

\* startup.lock lets one start at a time write, so its look and its write are one step.
BridgeStarts(p) ==
  \E s \in opened[p] :
    /\ bridgeOwner[s] # p
    /\ bridgeOwner' = [bridgeOwner EXCEPT ![s] = p]
    /\ UNCHANGED <<opened, living, tabs, registration, registrar, lister, label, left>>

-----------------------------------------------------------------------------
(* sessions: _known_homes, then the locks, the records and the configurations *)

Known == {s \in Sessions : registration[s] # {} \/ bridgeOwner[s] # 0}

\* Mistaken variant: only records of a process that runs name a home.
ScannedIfLiving ==
  (Sessions \ Custom) \cup
    IF \E s \in Custom : bridgeOwner[s] \in living \/ \E r \in registration[s] : r.owner \in living
      THEN Custom ELSE {}

\* "Every home ever named by a registration or bridge config is scanned, even when that
\* record's owner is gone."
Scanned == (Sessions \ Custom) \cup IF Known \cap Custom # {} THEN Custom ELSE {}

ListsHomes ==
  /\ lister.pc \in {"homes", "done"}
  /\ lister' = [NotListing EXCEPT
                  !.pc = "locks", !.scanned = Scanned,
                  !.steady = {s \in Sessions : ~IsFree(s) /\ (s \in Custom => Known \cap Custom # {})}]
  /\ UNCHANGED <<opened, living, tabs, registration, bridgeOwner, registrar, label, left>>

\* A row has the name that is stored, though the process that stored it is gone.
Row(s, p) == [thread |-> s, owner |-> p, name |-> StoredName(s)]
Listed == {r.thread : r \in lister.rows}
NextStep(pc, rows) == lister' = [lister EXCEPT !.pc = pc, !.rows = @ \cup rows]

ListsLocks ==
  /\ lister.pc = "locks"
  /\ lister' = [lister EXCEPT !.pc = "records", !.scanned = {},
                  !.locks = {Row(x[1], x[2]) : x \in
                               {y \in lister.scanned \X living : y[1] \in opened[y[2]]}}]
  /\ UNCHANGED <<opened, living, tabs, registration, bridgeOwner, registrar, label, left>>

ListsRecords ==
  /\ lister.pc = "records"
  /\ NextStep("bridges", {Row(x[1], x[2]) : x \in
       {y \in Sessions \X living : \E r \in registration[y[1]] : r.owner = y[2]}})
  /\ UNCHANGED <<opened, living, tabs, registration, bridgeOwner, registrar, label, left>>

\* Configurations whose owner runs, of threads that have no row yet.
Attached ==
  {Row(s, bridgeOwner[s]) : s \in {t \in Sessions \ Listed : bridgeOwner[t] \in living}}

\* Of the same process, the row of the lock takes the place of the configuration's.
ListsBridges ==
  LET sameAs(r) == {l \in lister.locks : l.thread = r.thread /\ l.owner = r.owner} IN
  /\ lister.pc = "bridges"
  /\ NextStep("rest", UNION {IF sameAs(r) # {} THEN sameAs(r) ELSE {r} : r \in Attached})
  /\ UNCHANGED <<opened, living, tabs, registration, bridgeOwner, registrar, label, left>>

\* Mistaken variant: a session is listed again by its lock.
ListsRestAgain ==
  /\ lister.pc = "rest"
  /\ lister' = [lister EXCEPT !.pc = "done", !.locks = {}, !.rows = @ \cup lister.locks]
  /\ UNCHANGED <<opened, living, tabs, registration, bridgeOwner, registrar, label, left>>

ListsRest ==
  /\ lister.pc = "rest"
  /\ lister' = [lister EXCEPT !.pc = "done", !.locks = {},
                  !.rows = @ \cup {l \in lister.locks : l.thread \notin Listed}]
  /\ UNCHANGED <<opened, living, tabs, registration, bridgeOwner, registrar, label, left>>

RegistryNext ==
  \/ \E s \in Sessions : TabStarts(s)
  \/ \E p \in Tabs, S \in {{}} \cup {{s} : s \in Sessions} : TabLeaves(p, S)
  \/ \E p \in Tabs : TabEnds(p) \/ HookLooks(p) \/ GivesName(p) \/ BridgeStarts(p)
  \/ HookRegisters \/ HookCutShort
  \/ ListsHomes \/ ListsLocks \/ ListsRecords \/ ListsBridges \/ ListsRest

RegistrySpec == RegistryInit /\ [][RegistryNext]_registryVars

-----------------------------------------------------------------------------
\* "Open tabs are discovered directly from live writer locks; no first message or manual
\* registration needed" (doctor), and "the name is a label that follows the thread UUID
\* across resume and new owner pids" (register): a thread that is open while the list is
\* made, in a home that is the default one or known, is in it once, under the name it was
\* given and with its process, whatever older processes have left behind.  Only one that
\* still runs, having gone on to another thread, can stand in its place.
OpenTabsAreListed ==
  lister.pc = "done" => \A s \in lister.steady :
    \E r \in lister.rows :
      /\ {x \in lister.rows : x.thread = s} = {r}
      /\ s \in opened[r.owner] \/ <<r.owner, s>> \in left
      /\ r.name = label[s]
=============================================================================
