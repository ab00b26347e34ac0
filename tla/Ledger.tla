-------------------------------- MODULE Ledger ---------------------------------
(***************************************************************************)
(* The compliance ledger under the repository's root: an append-only file  *)
(* of hash-chained incidents.  scripts/secure_model_deployer.py appends to *)
(* it, scripts/secure_ledger_rotator.py rotates it by size and             *)
(* scripts/compact_worm_ledger.py compacts it by entries, each in a        *)
(* process of its own and without a lock.                                  *)
(*                                                                         *)
(* A file is its sequence of entries and stays what it is when its name    *)
(* changes or goes, so that a process that has it open can still write to  *)
(* it.  The hash of an entry is named by the entry's number, and 0 is the  *)
(* all-zero hash.  Rotator and compactor follow one course, set aside,     *)
(* read the last hash, write a new ledger that starts with it, archive,    *)
(* remove, and differ in the audit and in what they do when a step fails.  *)
(*                                                                         *)
(* Testing the size and renaming are one step: a ledger replaced between   *)
(* them would be set aside below its limit, and nothing else would change. *)
(* Emptying the ledger and writing its first entry are one step, too: only *)
(* a deployer or keeper that meets this one, or a crash in between, could  *)
(* tell, and neither costs an incident that NothingLost does not excuse.   *)
(* An entry is written whole, so that the rotator never walks back over a  *)
(* torn line, and every name that is set aside is new, although the code's *)
(* are times in whole seconds.                                             *)
(***************************************************************************)
EXTENDS Integers, SequencesExt, FiniteSetsExt

CONSTANTS
  Deployers,   \* processes that append
  Keepers,     \* the rotator and the compactor
  Compactor,   \* the keeper that audits, and that puts back what it set aside
  Limit,       \* size_limit_mb and max_entries, in entries
  MaxEntries,  \* bound: how many entries are made
  MaxFiles,    \* bound: how many files there are at one time
  MaxCrashes   \* bound: how many keepers crash

ASSUME KeepersAssumption == Compactor \in Keepers
ASSUME LedgerBoundsAssumption ==
  /\ Limit \in Nat \ {0}
  /\ MaxEntries \in Nat
  /\ MaxFiles \in Nat
  /\ MaxCrashes \in Nat

VARIABLES
  ledger,     \* the file that has the ledger's name, or 0
  aside,      \* the files that have an .isolated or .frozen name
  content,    \* what is in each file
  archives,   \* the archives, oldest first
  deployer,   \* where each deployer is, its entry, the hash it read, the file it has open
  keeper,     \* where each keeper is, the file it set aside, its entry and the hash it read
  nextEntry,  \* number of the next entry
  crashes,    \* how many keepers have crashed
  committed,  \* history: the incidents that were written
  overlapped, \* history: the incidents whose append met a keeper at work
  undisturbed \* history: nothing has crashed or failed, and no two were at work at a time

ledgerVars == <<ledger, aside, content, archives, deployer, keeper, nextEntry, crashes,
          committed, overlapped, undisturbed>>
history == <<committed, overlapped, undisturbed>>

Files == 1 .. MaxFiles
Entries == [entry : 1 .. MaxEntries, prev : 0 .. MaxEntries]

Idle == [at |-> "idle", entry |-> 0, prev |-> 0, file |-> 0]

LedgerInit ==
  /\ ledger = 0
  /\ aside = {}
  /\ content = [f \in Files |-> <<>>]
  /\ archives = <<>>
  /\ deployer = [d \in Deployers |-> Idle]
  /\ keeper = [k \in Keepers |-> Idle]
  /\ nextEntry = 1
  /\ crashes = 0
  /\ committed = {}
  /\ overlapped = {}
  /\ undisturbed = TRUE

-----------------------------------------------------------------------------
Appending == {d \in Deployers : deployer[d].at # "idle"}
Working == {k \in Keepers : keeper[k].at # "idle"}

LastHash(s) == IF s = <<>> THEN 0 ELSE Last(s).entry

\* _verify_cryptographic_chain: each entry carries the hash of the one before.
Chained(s) == \A i \in 2 .. Len(s) : s[i].prev = s[i - 1].entry

\* A file that no name and no process refers to any more.
FreeFiles ==
  Files \ ({ledger} \cup aside \cup {deployer[d].file : d \in Deployers}
             \cup {keeper[k].file : k \in Keepers})

\* The file an open for writing gets: the ledger, or a new one.
Opened == IF ledger # 0 THEN {ledger} ELSE IF FreeFiles = {} THEN {} ELSE {Min(FreeFiles)}

-----------------------------------------------------------------------------
(***************************************************************************)
(* _commit_supply_chain_violation.                                         *)
(***************************************************************************)
DeployerGoes(d, from, to) ==
  /\ deployer[d].at = from
  /\ deployer' = [deployer EXCEPT ![d] = to]
  /\ UNCHANGED <<aside, archives, keeper, crashes>>

\* Is there a ledger to read the last hash from?
Look(d) ==
  /\ nextEntry <= MaxEntries
  /\ DeployerGoes(d, "idle",
       [Idle EXCEPT !.at = IF ledger = 0 THEN "open" ELSE "read", !.entry = nextEntry])
  /\ nextEntry' = nextEntry + 1
  /\ overlapped' = overlapped \cup (IF Working = {} THEN {} ELSE {nextEntry})
  /\ undisturbed' = (undisturbed /\ Working = {} /\ Appending = {})
  /\ UNCHANGED <<ledger, content, committed>>

Read(d) ==
  /\ ledger # 0
  /\ DeployerGoes(d, "read",
       [deployer[d] EXCEPT !.at = "open", !.prev = LastHash(content[ledger])])
  /\ UNCHANGED <<ledger, content, nextEntry, history>>

\* The ledger has gone since: the incident is reported as an error and given up.
GiveUp(d) ==
  /\ ledger = 0
  /\ DeployerGoes(d, "read", Idle)
  /\ UNCHANGED <<ledger, content, nextEntry, history>>

Open(d) ==
  \E f \in Opened :
    /\ DeployerGoes(d, "open", [deployer[d] EXCEPT !.at = "write", !.file = f])
    /\ content' = IF ledger = f THEN content ELSE [content EXCEPT ![f] = <<>>]
    /\ ledger' = f
    /\ UNCHANGED <<nextEntry, history>>

WriteEntry(d) ==
  /\ DeployerGoes(d, "write", Idle)
  /\ content' = [content EXCEPT ![deployer[d].file] =
                   Append(@, [entry |-> deployer[d].entry, prev |-> deployer[d].prev])]
  /\ committed' = committed \cup {deployer[d].entry}
  /\ UNCHANGED <<ledger, nextEntry, overlapped, undisturbed>>

-----------------------------------------------------------------------------
(***************************************************************************)
(* _perform_atomic_rotation and execute_compaction.                        *)
(***************************************************************************)
KeeperGoes(k, from, to) ==
  /\ keeper[k].at = from
  /\ keeper' = [keeper EXCEPT ![k] = to]
  /\ UNCHANGED <<deployer, committed>>

\* A keeper that meets the other one puts every entry at risk.
Meets ==
  {deployer[d].entry : d \in Appending} \cup (IF Working = {} THEN {} ELSE 1 .. MaxEntries)

\* A slip: the ledger keeps its name.
SetAsideByLink(k) ==
  /\ ledger # 0
  /\ Len(content[ledger]) >= Limit
  /\ nextEntry <= MaxEntries
  /\ KeeperGoes(k, "idle", [Idle EXCEPT !.at = "audit", !.entry = nextEntry, !.file = ledger])
  /\ aside' = aside \cup {ledger}
  /\ nextEntry' = nextEntry + 1
  /\ overlapped' = overlapped \cup Meets
  /\ undisturbed' = (undisturbed /\ Meets = {})
  /\ UNCHANGED <<ledger, content, archives, crashes>>

\* os.rename.
SetAside(k) ==
  /\ ledger # 0
  /\ Len(content[ledger]) >= Limit
  /\ nextEntry <= MaxEntries
  /\ KeeperGoes(k, "idle", [Idle EXCEPT !.at = "audit", !.entry = nextEntry, !.file = ledger])
  /\ aside' = aside \cup {ledger}
  /\ ledger' = 0
  /\ nextEntry' = nextEntry + 1
  /\ overlapped' = overlapped \cup Meets
  /\ undisturbed' = (undisturbed /\ Meets = {})
  /\ UNCHANGED <<content, archives, crashes>>

\* The rotator takes the last hash as it finds it.
ReadHash(k) ==
  LET s == content[keeper[k].file] IN
    /\ k = Compactor => Chained(s)
    /\ KeeperGoes(k, "audit", [keeper[k] EXCEPT !.at = "anchor", !.prev = LastHash(s)])
    /\ UNCHANGED <<ledger, aside, content, archives, nextEntry, crashes, overlapped, undisturbed>>

\* The rotator cannot read what it set aside: it takes the all-zero hash and goes on.
MissHash(k) ==
  /\ k # Compactor
  /\ KeeperGoes(k, "audit", [keeper[k] EXCEPT !.at = "anchor"])
  /\ undisturbed' = FALSE
  /\ UNCHANGED <<ledger, aside, content, archives, nextEntry, crashes, overlapped>>

\* A slip: the new ledger is not anchored in the old one.
StartUnanchored(k) ==
  \E f \in Opened :
    /\ KeeperGoes(k, "anchor", [keeper[k] EXCEPT !.at = "archive"])
    /\ content' = [content EXCEPT ![f] = <<[entry |-> keeper[k].entry, prev |-> 0]>>]
    /\ ledger' = f
    /\ UNCHANGED <<aside, archives, nextEntry, crashes, overlapped, undisturbed>>

\* Mode "w" empties a ledger somebody has started in the meantime.
StartLedger(k) ==
  \E f \in Opened :
    /\ KeeperGoes(k, "anchor", [keeper[k] EXCEPT !.at = "archive"])
    /\ content' = [content EXCEPT ![f] =
                     <<[entry |-> keeper[k].entry, prev |-> keeper[k].prev]>>]
    /\ ledger' = f
    /\ UNCHANGED <<aside, archives, nextEntry, crashes, overlapped, undisturbed>>

Archive(k) ==
  /\ KeeperGoes(k, "archive", [keeper[k] EXCEPT !.at = "remove"])
  /\ archives' = Append(archives, content[keeper[k].file])
  /\ UNCHANGED <<ledger, aside, content, nextEntry, crashes, overlapped, undisturbed>>

RemoveSource(k) ==
  /\ KeeperGoes(k, "remove", Idle)
  /\ aside' = aside \ {keeper[k].file}
  /\ UNCHANGED <<ledger, content, archives, nextEntry, crashes, overlapped, undisturbed>>

\* The compactor puts the ledger back over whatever has its name by now.
PutBack(k) ==
  /\ k = Compactor
  /\ KeeperGoes(k, keeper[k].at, Idle)
  /\ ledger' = keeper[k].file
  /\ aside' = aside \ {keeper[k].file}
  /\ undisturbed' = FALSE
  /\ UNCHANGED <<content, archives, nextEntry, crashes, overlapped>>

\* The rotator reports that it could not compress and leaves the file where it is.
LeaveAside(k) ==
  /\ k # Compactor
  /\ keeper[k].at \in {"archive", "remove"}
  /\ KeeperGoes(k, keeper[k].at, Idle)
  /\ undisturbed' = FALSE
  /\ UNCHANGED <<ledger, aside, content, archives, nextEntry, crashes, overlapped>>

\* A slip: what an earlier run left aside is swept away.
CrashAndSweep(k) ==
  /\ crashes < MaxCrashes
  /\ KeeperGoes(k, keeper[k].at, Idle)
  /\ aside' = aside \ {keeper[k].file}
  /\ crashes' = crashes + 1
  /\ undisturbed' = FALSE
  /\ UNCHANGED <<ledger, content, archives, nextEntry, overlapped>>

\* A keeper dies, and begins anew: nothing looks for what it left aside.
Crash(k) ==
  /\ crashes < MaxCrashes
  /\ KeeperGoes(k, keeper[k].at, Idle)
  /\ crashes' = crashes + 1
  /\ undisturbed' = FALSE
  /\ UNCHANGED <<ledger, aside, content, archives, nextEntry, overlapped>>

-----------------------------------------------------------------------------
Deploy(d) == Look(d) \/ Read(d) \/ GiveUp(d) \/ Open(d) \/ WriteEntry(d)

Keep(k) ==
  \/ SetAside(k)
  \/ k \in Working /\ (ReadHash(k) \/ StartLedger(k) \/ Archive(k) \/ RemoveSource(k))
  \/ k \in Working /\ (MissHash(k) \/ PutBack(k) \/ LeaveAside(k) \/ Crash(k))

LedgerNext ==
  \/ \E d \in Deployers : Deploy(d)
  \/ \E k \in Keepers : Keep(k)

LedgerSpec == LedgerInit /\ [][LedgerNext]_ledgerVars

-----------------------------------------------------------------------------
\* Every file has at most one name, whatever is renamed over what.
LedgerTypeOK ==
  /\ ledger \in Files \cup {0}
  /\ aside \subseteq Files \ {ledger}
  /\ content \in [Files -> Seq(Entries)]
  /\ archives \in Seq(Seq(Entries))
  /\ deployer \in [Deployers -> [at : {"idle", "read", "open", "write"},
                                 entry : 0 .. MaxEntries, prev : 0 .. MaxEntries,
                                 file : Files \cup {0}]]
  /\ keeper \in [Keepers -> [at : {"idle", "audit", "anchor", "archive", "remove"},
                             entry : 0 .. MaxEntries, prev : 0 .. MaxEntries,
                             file : Files \cup {0}]]
  /\ nextEntry \in 1 .. MaxEntries + 1
  /\ crashes \in 0 .. MaxCrashes
  /\ committed \subseteq 1 .. MaxEntries
  /\ overlapped \subseteq 1 .. MaxEntries
  /\ undisturbed \in BOOLEAN

EntriesOf(s) == {e.entry : e \in Range(s)}
Kept ==
  LET named == aside \cup ({ledger} \ {0}) IN
    (UNION {EntriesOf(content[f]) : f \in named})
      \cup (UNION {EntriesOf(a) : a \in Range(archives)})

\* An incident that was written is lost only if its append met a rotation or a
\* compaction, or if those two met: a crash or an error of either, at any step, and
\* any number of later runs leave it in the ledger, in an archive or set aside.
NothingLost == committed \ Kept \subseteq overlapped

\* With nobody in the other's way and no failure, archives and ledger read one
\* after the other are one unbroken chain from the first incident on.
ChainUnbroken ==
  undisturbed /\ Working = {} =>
    Chained(FlattenSeq(archives) \o IF ledger = 0 THEN <<>> ELSE content[ledger])
=============================================================================
