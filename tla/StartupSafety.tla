---------------------------- MODULE StartupSafety ----------------------------
(***************************************************************************)
(* The safety of set-up and start, for any bots, ids, directories, builds  *)
(* and numbers of starts, crashes and retired waiters: a registry no two   *)
(* bots of which collide, a database that is stamped only when it is whole *)
(* and is served by no build older than its stamp, and one waiter.         *)
(***************************************************************************)
EXTENDS Startup, FiniteSetTheorems, WellFoundedInduction, TLAPS

(* -------------------------- nostrherd init ----------------------------- *)

Running == {"dir", "git", "read", "truncate", "write"}

Apart(a, b) == Id[a] # Id[b] /\ Dir[a] # Dir[b]

\* One init runs at a time; what it checked against is the registry until it
\* writes, and what it read from then on.
InitKnown ==
  /\ \A a, b \in Bots : init[a] \in Running /\ init[b] \in Running => a = b
  /\ \A b \in Bots :
       /\ init[b] \in {"dir", "git", "read"} => \A other \in registry : Apart(other, b)
       /\ init[b] = "truncate" => read[b] = registry
       /\ init[b] = "write" => registry = {}
       /\ init[b] \in {"truncate", "write"} =>
            /\ \A other \in read[b] : Apart(other, b)
            /\ \A a, c \in read[b] : a # c => Apart(a, c)

\* Who is set up is in the file, or in what the running init will write.
DoneIsKept ==
  ~cut => \A b \in Bots : init[b] = "done" =>
    \/ b \in registry
    \/ \E other \in Bots : init[other] = "write" /\ b \in read[other]

\* What is in a directory was put there by an init that went past it.
FilledByOne ==
  \A dir \in filled :
    \E b \in Bots : Dir[b] = dir /\ init[b] \notin {"off", "dir", "refused"}

SetUpInv == InitKnown /\ DoneIsKept /\ FilledByOne /\ RegistryIsSound

(* ------------------------------ the host ------------------------------- *)

\* What is still to be added, and to be dropped, when a migration step is next.
ToAdd(step) ==
  CASE step \in {"progress", "claimed"} -> Shaped
    [] step \in {"nullable", "prepared"} -> Shaped \ {"claimed"}
    [] step = "dispatch failed" -> Shaped \ {"claimed", "prepared"}
    [] step = "ask body" -> Shaped \ {"claimed", "prepared", "dispatch failed"}
    [] step = "publish target" -> {"publish target", "delete pending", "bot", "retry"}
    [] step \in {"fill", "delete pending"} -> {"delete pending", "bot", "retry"}
    [] step = "bot" -> {"bot", "retry"}
    [] step = "retry" -> {"retry"}
    [] OTHER -> {}

ToDrop(step) ==
  CASE step = "progress" -> OldColumns
    [] step \in {"claimed", "nullable"} -> OldColumns \ {"progress dispatched"}
    [] step \in {"stamp", "waiter", "mint"} -> {}
    [] OTHER -> {"occupant", "backend"}

Migrating ==
  {"progress", "claimed", "nullable", "prepared", "dispatch failed", "ask body",
   "publish target", "fill", "delete pending", "bot", "retry", "identity", "stamp"}

\* A process that comes up has done the steps before its next one, each a
\* commit; it registers only a build that it stamped.
ComingUp ==
  /\ host \in Migrating \cup {"down", "waiter", "mint"}
  /\ host # "down" => build # 0
  /\ host \in Migrating =>
       Shaped \ ToAdd(host) \subseteq columns /\ columns \cap OldColumns \subseteq ToDrop(host)
  /\ host \in {"waiter", "mint"} => build = stamp

\* Before the first stamp nothing was served, so nothing was prepared.
UnstampedIsUnused == stamp = 0 => serving = 0 /\ prepared = "none"

\* Only the waiter of the key on disk is live, and none while one is minted.
WaiterKnown ==
  /\ {k \in Keys : waiter[k] = "live"} \subseteq {keyFile}
  /\ host = "mint" => waiter[keyFile] = "ended"

DatabaseInv ==
  /\ ComingUp /\ UnstampedIsUnused /\ WaiterKnown
  /\ StampedIsShaped /\ WakesStaySilent

StartupInv == StartupTypeOK /\ SetUpInv /\ DatabaseInv

-----------------------------------------------------------------------------
(* ----------------------------------- types ----------------------------- *)

LEMMA ShapedIs ==
  Shaped = {"claimed", "prepared", "dispatch failed", "ask body", "publish target",
            "delete pending", "bot", "retry"}
<1>1. Shaped = {Added[i] : i \in 1..8}
  BY DEF Shaped, Added, ToSet
<1>2. /\ Added[1] = "claimed" /\ Added[2] = "prepared" /\ Added[3] = "dispatch failed"
      /\ Added[4] = "ask body" /\ Added[5] = "publish target" /\ Added[6] = "delete pending"
      /\ Added[7] = "bot" /\ Added[8] = "retry"
  BY DEF Added
<1>3. 1..8 = {1, 2, 3, 4, 5, 6, 7, 8}
  OBVIOUS
<1> HIDE DEF Added
<1> QED
  BY <1>1, <1>2, <1>3

LEMMA LeastNat ==
  ASSUME NEW T, T \subseteq Nat, T # {}
  PROVE  \E x \in T : \A y \in T : x <= y
<1> DEFINE R == {ss \in Nat \X Nat : ss[1] < ss[2]}
<1>1. IsWellFoundedOn(R, Nat)
  BY NatLessThanWellFounded DEF OpToRel
<1> HIDE DEF R
<1>2. PICK x \in T : \A y \in T : <<y, x>> \notin R
  BY <1>1, WFMin
<1>3. ASSUME NEW y \in T PROVE x <= y
  <2>1. ~(y < x)
    BY <1>2 DEF R
  <2> QED
    BY <2>1
<1> QED
  BY <1>3

\* A key is minted only among those Kelpie never heard of.
LEMMA FreshIsUnused ==
  ASSUME Unused # {}
  PROVE  Fresh \in Unused /\ Fresh \in Keys
<1>1. Unused \subseteq Nat
  BY StartupAssumption DEF Unused, Keys, StartupAssumption
<1>2. \E k \in Unused : \A other \in Unused : k <= other
  BY <1>1, LeastNat
<1> QED
  BY <1>2 DEF Fresh, Unused

LEMMA InitTypes ==
  ASSUME StartupTypeOK, NEW b \in Bots,
         \/ InitChecks(b) \/ InitWrites(b) \/ InitGit(b) \/ AppendReads(b)
         \/ AppendTruncates(b) \/ AppendWrites(b) \/ InitCrashes(b)
  PROVE  StartupTypeOK'
<1> DEFINE Steps == {"off", "dir", "git", "read", "truncate", "write", "done", "refused", "failed"}
<1>1. UNCHANGED <<columns, targets, wakes, prepared, stamp, build, check, serving, keyFile, waiter>>
  BY DEF InitChecks, InitWrites, InitGit, AppendReads, AppendTruncates, AppendWrites, InitCrashes,
         database, process, keys
<1>2. \E step \in Steps : init' = [init EXCEPT ![b] = step]
  BY DEF InitChecks, InitWrites, InitGit, AppendReads, AppendTruncates, AppendWrites, InitCrashes,
         InitGoes
<1>3. registry' \subseteq Bots /\ read' \in [Bots -> SUBSET Bots]
  BY DEF InitChecks, InitWrites, InitGit, AppendReads, AppendTruncates, AppendWrites, InitCrashes,
         StartupTypeOK
<1>4. filled' \subseteq {Dir[a] : a \in Bots} /\ cut' \in BOOLEAN
  BY DEF InitChecks, InitWrites, InitGit, AppendReads, AppendTruncates, AppendWrites, InitCrashes,
         StartupTypeOK
<1> QED
  BY <1>1, <1>2, <1>3, <1>4 DEF StartupTypeOK

LEMMA HostTypes ==
  ASSUME StartupTypeOK,
         \/ \E b \in Builds, only \in BOOLEAN : Load(b, only)
         \/ HostSteps \/ Serve \/ HostExits \/ HostCrashes
         \/ \E k \in Keys : Retire(k)
  PROVE  StartupTypeOK'
<1> USE DEF StartupTypeOK, setup, database, process, keys, HostGoes, HostStops, Ends
<1>1. ASSUME NEW b \in Builds, NEW only \in BOOLEAN, Load(b, only) PROVE StartupTypeOK'
  BY <1>1 DEF Load
<1>2. CASE Migrate
  <2>1. UNCHANGED <<setup, keys, build, check, serving, stamp, wakes>>
    BY <1>2 DEF Migrate, MigrateProgress, AddColumn, MigrateReply, AddTarget, FillTargets, DropIdentity
  <2>2. columns' \subseteq OldColumns \cup Shaped
    BY <1>2, ShapedIs DEF Migrate, MigrateProgress, AddColumn, MigrateReply, AddTarget, FillTargets,
                DropIdentity
  <2>3. targets' \in {"none", "null", "event"} /\ prepared' \in {"none", "kept", "lost"}
    BY <1>2 DEF Migrate, MigrateProgress, AddColumn, MigrateReply, AddTarget, FillTargets,
                DropIdentity
  <2> QED
    BY <2>1, <2>2, <2>3
<1>3. CASE Stamp
  <2>1. UNCHANGED <<setup, columns, targets, wakes, prepared, keys, bounds, serving>>
    BY <1>3 DEF Stamp
  <2>2. stamp' \in {stamp, build} /\ build' \in {0, build} /\ check' \in {FALSE, check}
    BY <1>3 DEF Stamp
  <2> QED
    BY <2>1, <2>2
<1>4. CASE Register
  BY <1>4 DEF Register
<1>5. CASE Mint
  <2>1. UNCHANGED <<setup, database, waiter, serving>>
    BY <1>5 DEF Mint
  <2>2. build' \in {0, build} /\ check' \in {FALSE, check}
    BY <1>5 DEF Mint
  <2>3. keyFile' \in Keys
    BY <1>5, FreshIsUnused, StartupAssumption DEF Mint, Keys, StartupAssumption
  <2> QED
    BY <2>1, <2>2, <2>3
<1>6. CASE Serve \/ HostExits \/ HostCrashes
  BY <1>6 DEF Serve, HostExits, HostCrashes
<1>7. ASSUME NEW k \in Keys, Retire(k) PROVE StartupTypeOK'
  BY <1>7 DEF Retire
<1> QED
  BY <1>1, <1>2, <1>3, <1>4, <1>5, <1>6, <1>7 DEF HostSteps

-----------------------------------------------------------------------------
(* ---------------------------------- set-up ----------------------------- *)

\* What a step of one init leaves of the others and of the file.
LEMMA InitSteps ==
  ASSUME StartupTypeOK, InitKnown, NEW b \in Bots,
         \/ InitChecks(b) \/ InitWrites(b) \/ InitGit(b) \/ AppendReads(b)
         \/ AppendTruncates(b) \/ AppendWrites(b) \/ InitCrashes(b)
  PROVE  /\ \A a \in Bots \ {b} : init'[a] = init[a] /\ init[a] \notin Running /\ read'[a] = read[a]
         /\ init[b] = "off" \/ init[b] \in Running
         /\ init'[b] \in Running \cup {"done", "refused", "failed"}
<1> USE DEF StartupTypeOK, Running, InitGoes
<1>1. CASE InitChecks(b)
  BY <1>1 DEF InitChecks, Idle
<1>2. CASE InitWrites(b) \/ InitGit(b) \/ AppendTruncates(b) \/ AppendWrites(b) \/ InitCrashes(b)
  <2>1. /\ init[b] \in Running /\ read' = read
        /\ \E step \in Running \cup {"done", "refused", "failed"} : init' = [init EXCEPT ![b] = step]
    BY <1>2 DEF InitWrites, InitGit, AppendTruncates, AppendWrites, InitCrashes
  <2> QED
    BY <2>1 DEF InitKnown
<1>3. CASE AppendReads(b)
  BY <1>3 DEF AppendReads, InitKnown
<1> QED
  BY <1>1, <1>2, <1>3

LEMMA SetUpKept ==
  ASSUME StartupTypeOK, SetUpInv, NEW b \in Bots,
         \/ InitChecks(b) \/ InitWrites(b) \/ InitGit(b) \/ AppendReads(b)
         \/ AppendTruncates(b) \/ AppendWrites(b) \/ InitCrashes(b)
  PROVE  SetUpInv'
<1> USE DEF StartupTypeOK
<1>1. /\ \A a \in Bots \ {b} : init'[a] = init[a] /\ init[a] \notin Running /\ read'[a] = read[a]
      /\ init[b] = "off" \/ init[b] \in Running
      /\ init'[b] \in Running \cup {"done", "refused", "failed"}
  BY InitSteps DEF SetUpInv
<1>2. (\A a, c \in Bots : init[a] \in Running /\ init[c] \in Running => a = c)'
  BY <1>1
<1>3. ASSUME ~(\E dir \in filled' : dir \notin filled) \/ init'[b] = "git",
             filled' \subseteq filled \cup {Dir[b]},
             init'[b] \in {"off", "dir", "refused"} => init[b] \in {"off", "dir", "refused"}
      PROVE  FilledByOne'
  <2>1. \A a \in Bots : init[a] \notin {"off", "dir", "refused"} => init'[a] \notin {"off", "dir", "refused"}
    BY <1>1, <1>3
  <2>2. ASSUME NEW dir \in filled'
        PROVE  \E a \in Bots : Dir[a] = dir /\ init'[a] \notin {"off", "dir", "refused"}
    <3>1. CASE dir \in filled
      BY <2>1, <3>1 DEF SetUpInv, FilledByOne
    <3>2. CASE dir \notin filled
      BY <1>3, <3>2
    <3> QED
      BY <3>1, <3>2
  <2> QED
    BY <2>2 DEF FilledByOne
<1>4. CASE InitChecks(b)
  <2>1. /\ UNCHANGED <<registry, cut, filled, read>> /\ init[b] = "off"
        /\ init' = [init EXCEPT ![b] = IF RegistryAccepts(b) THEN "dir" ELSE "refused"]
    BY <1>4 DEF InitChecks, InitGoes
  <2>2. init'[b] = (IF RegistryAccepts(b) THEN "dir" ELSE "refused")
    BY <2>1
  <2>3. InitKnown'
    BY <1>1, <1>2, <2>1, <2>2 DEF InitKnown, RegistryAccepts, Apart, Running
  <2>4. DoneIsKept'
    BY <1>1, <2>1, <2>2 DEF SetUpInv, DoneIsKept
  <2>5. FilledByOne'
    BY <1>3, <2>1
  <2> QED
    BY <2>1, <2>3, <2>4, <2>5 DEF SetUpInv, RegistryIsSound
<1>5. CASE InitWrites(b)
  <2>1. /\ UNCHANGED <<registry, cut, read>> /\ init[b] = "dir"
        /\ \/ init'[b] = "refused" /\ filled' = filled
           \/ init'[b] = "git" /\ filled' = filled \cup {Dir[b]}
    BY <1>5 DEF InitWrites, InitGoes
  <2>2. InitKnown'
    BY <1>1, <1>2, <2>1 DEF SetUpInv, InitKnown, Running
  <2>3. DoneIsKept'
    BY <1>1, <2>1 DEF SetUpInv, DoneIsKept
  <2>4. FilledByOne'
    BY <1>3, <2>1
  <2> QED
    BY <2>1, <2>2, <2>3, <2>4 DEF SetUpInv, RegistryIsSound
<1>6. CASE InitGit(b) \/ AppendReads(b)
  <2>1. /\ UNCHANGED <<registry, cut, filled>>
        /\ \/ init[b] = "git" /\ init'[b] \in {"failed", "read"} /\ read' = read
           \/ init[b] = "read" /\ init'[b] = "truncate" /\ read'[b] = registry
    BY <1>6 DEF InitGit, AppendReads, InitGoes
  <2>2. InitKnown'
    <3>1. \A other \in registry : Apart(other, b)
      BY <2>1 DEF SetUpInv, InitKnown
    <3>2. \A a, c \in registry : a # c => Apart(a, c)
      BY DEF SetUpInv, RegistryIsSound, Apart
    <3> QED
      BY <1>1, <1>2, <2>1, <3>1, <3>2 DEF SetUpInv, InitKnown, Running
  <2>3. DoneIsKept'
    BY <1>1, <2>1 DEF SetUpInv, DoneIsKept
  <2>4. FilledByOne'
    BY <1>3, <2>1
  <2> QED
    BY <2>1, <2>2, <2>3, <2>4 DEF SetUpInv, RegistryIsSound
<1>7. CASE AppendTruncates(b)
  <2>1. /\ init[b] = "truncate" /\ init'[b] = "write" /\ registry' = {}
        /\ UNCHANGED <<cut, filled, read>>
    BY <1>7 DEF AppendTruncates, InitGoes
  <2>2. InitKnown'
    BY <1>1, <1>2, <2>1 DEF SetUpInv, InitKnown, Running
  <2>3. DoneIsKept'
    <3>1. read[b] = registry
      BY <2>1 DEF SetUpInv, InitKnown
    <3>2. \A a \in Bots : init'[a] = "done" => init[a] = "done"
      BY <1>1, <2>1
    <3>3. \A a \in Bots : init[a] # "write"
      BY <1>1, <2>1 DEF Running
    <3> QED
      BY <2>1, <3>1, <3>2, <3>3 DEF SetUpInv, DoneIsKept
  <2>4. FilledByOne'
    BY <1>3, <2>1
  <2> QED
    BY <2>1, <2>2, <2>3, <2>4 DEF SetUpInv, RegistryIsSound
<1>8. CASE AppendWrites(b)
  <2>1. /\ init[b] = "write" /\ init'[b] = "done" /\ registry' = read[b] \cup {b}
        /\ UNCHANGED <<cut, filled, read>>
    BY <1>8 DEF AppendWrites, InitGoes
  <2>2. \A other \in read[b] : Apart(other, b)
    BY <2>1 DEF SetUpInv, InitKnown
  <2>3. \A a, c \in read[b] : a # c => Apart(a, c)
    BY <2>1 DEF SetUpInv, InitKnown
  <2>4. RegistryIsSound'
    BY <2>1, <2>2, <2>3 DEF RegistryIsSound, Apart
  <2>5. InitKnown'
    BY <1>1, <1>2, <2>1 DEF InitKnown, Running
  <2>6. DoneIsKept'
    <3>1. ASSUME ~cut, NEW a \in Bots, init'[a] = "done" PROVE a \in registry'
      <4>1. CASE a # b
        <5>1. a \in registry \/ \E other \in Bots : init[other] = "write" /\ a \in read[other]
          BY <1>1, <3>1, <4>1 DEF SetUpInv, DoneIsKept
        <5>2. ASSUME NEW other \in Bots, init[other] = "write" PROVE other = b
          BY <1>1, <5>2 DEF Running
        <5>3. registry = {}
          BY <2>1 DEF SetUpInv, InitKnown
        <5> QED
          BY <2>1, <5>1, <5>2, <5>3
      <4> QED
        BY <2>1, <4>1
    <3> QED
      BY <2>1, <3>1 DEF DoneIsKept
  <2>7. FilledByOne'
    BY <1>3, <2>1
  <2> QED
    BY <2>4, <2>5, <2>6, <2>7 DEF SetUpInv
<1>9. CASE InitCrashes(b)
  <2>1. /\ UNCHANGED <<registry, filled, read>> /\ init'[b] = "failed"
        /\ init[b] \in {"git", "read", "truncate", "write"}
        /\ cut' = (cut \/ init[b] = "write")
    BY <1>9 DEF InitCrashes, InitGoes
  <2>2. InitKnown'
    BY <1>1, <1>2, <2>1 DEF SetUpInv, InitKnown, Running
  <2>3. DoneIsKept'
    BY <1>1, <2>1 DEF SetUpInv, DoneIsKept, Running
  <2>4. FilledByOne'
    BY <1>3, <2>1
  <2> QED
    BY <2>1, <2>2, <2>3, <2>4 DEF SetUpInv, RegistryIsSound
<1> QED
  BY <1>4, <1>5, <1>6, <1>7, <1>8, <1>9

\* The host reads the registry and leaves set-up alone.
LEMMA SetUpUnchanged ==
  ASSUME SetUpInv, UNCHANGED setup
  PROVE  SetUpInv'
<1>1. InitKnown'
  BY DEF SetUpInv, InitKnown, setup
<1>2. DoneIsKept' /\ FilledByOne' /\ RegistryIsSound'
  BY DEF SetUpInv, DoneIsKept, FilledByOne, RegistryIsSound, setup
<1> QED
  BY <1>1, <1>2 DEF SetUpInv

-----------------------------------------------------------------------------
(* --------------------------------- the host ---------------------------- *)

\* A migration step leaves what is after it still to be done, and no more.
LEMMA MigrateEffect ==
  ASSUME StartupTypeOK, DatabaseInv, Migrate
  PROVE  /\ host \in Migrating /\ host' \in Migrating
         /\ Shaped \ ToAdd(host') \subseteq columns'
         /\ columns' \cap OldColumns \subseteq ToDrop(host')
         /\ prepared' = prepared
         /\ stamp # 0 => columns \subseteq columns' \cup OldColumns /\ columns' \cap OldColumns = {}
<1> USE ShapedIs DEF ToAdd, ToDrop, Migrating, OldColumns, HostGoes
<1>1. /\ Shaped \subseteq columns \cup ToAdd(host)
      /\ columns \cap OldColumns \subseteq ToDrop(host)
      /\ columns \subseteq OldColumns \cup Shaped
      /\ host \in Migrating
      /\ stamp # 0 => Shaped \subseteq columns /\ columns \cap OldColumns = {}
  BY DEF DatabaseInv, ComingUp, StartupTypeOK, Migrate, MigrateProgress, AddColumn, MigrateReply,
         AddTarget, FillTargets, DropIdentity, StampedIsShaped
<1>2. CASE MigrateProgress
  BY <1>1, <1>2 DEF MigrateProgress
<1>3. CASE AddColumn("claimed", "claimed", "nullable")
  BY <1>1, <1>3 DEF AddColumn
<1>4. CASE MigrateReply
  <2>1. stamp # 0 => "reply not null" \notin columns
    BY <1>1
  <2>2. prepared' = prepared
    BY <1>4, <2>1 DEF MigrateReply, DatabaseInv, UnstampedIsUnused
  <2>3. host = "nullable" /\ host' = "prepared" /\ (columns' = columns \/ stamp = 0)
    BY <1>4, <2>1 DEF MigrateReply
  <2>4. "claimed" \in columns' /\ "reply not null" \notin columns' /\ columns' \subseteq columns
        /\ "progress dispatched" \notin columns
    BY <1>1, <1>4, <2>3 DEF MigrateReply
  <2> QED
    BY <1>1, <2>2, <2>3, <2>4
<1>5. CASE \/ AddColumn("prepared", "prepared", "dispatch failed")
           \/ AddColumn("dispatch failed", "dispatch failed", "ask body")
           \/ AddColumn("ask body", "ask body", "publish target")
  BY <1>1, <1>5 DEF AddColumn
<1>6. CASE AddTarget
  <2>1. /\ host = "publish target" /\ host' \in {"fill", "delete pending"}
        /\ columns' = columns \cup {"publish target"} /\ prepared' = prepared
    BY <1>6 DEF AddTarget
  <2>2. Shaped \ ToAdd(host') \subseteq columns'
    BY <1>1, <2>1
  <2>3. columns' \cap OldColumns \subseteq ToDrop(host')
    BY <1>1, <2>1
  <2> QED
    BY <1>1, <2>1, <2>2, <2>3
<1>7. CASE FillTargets
  BY <1>1, <1>7 DEF FillTargets
<1>8. CASE \/ AddColumn("delete pending", "delete pending", "bot")
           \/ AddColumn("bot", "bot", "retry")
           \/ AddColumn("retry", "retry", "identity")
  BY <1>1, <1>8 DEF AddColumn
<1>9. CASE DropIdentity
  BY <1>1, <1>9 DEF DropIdentity
<1> QED
  BY <1>2, <1>3, <1>4, <1>5, <1>6, <1>7, <1>8, <1>9 DEF Migrate

LEMMA DatabaseKept ==
  ASSUME StartupTypeOK, DatabaseInv, [Next]_vars
  PROVE  DatabaseInv'
<1> USE DEF StartupTypeOK, setup, database, process, keys, bounds
<1>1. CASE UNCHANGED vars \/ HostExits
  <2>1. UNCHANGED <<columns, wakes, prepared, stamp, host, build, keyFile, waiter>> /\ serving' \in {0, serving}
    BY <1>1 DEF vars, HostExits
  <2> QED
    BY <2>1 DEF DatabaseInv, ComingUp, UnstampedIsUnused, WaiterKnown, StampedIsShaped, WakesStaySilent
<1>2. ASSUME NEW b \in Bots,
             \/ InitChecks(b) \/ InitWrites(b) \/ InitGit(b) \/ AppendReads(b)
             \/ AppendTruncates(b) \/ AppendWrites(b) \/ InitCrashes(b)
      PROVE  DatabaseInv'
  <2>1. UNCHANGED <<database, process, keys>>
    BY <1>2 DEF InitChecks, InitWrites, InitGit, AppendReads, AppendTruncates, AppendWrites, InitCrashes
  <2> QED
    BY <2>1 DEF DatabaseInv, ComingUp, UnstampedIsUnused, WaiterKnown, StampedIsShaped, WakesStaySilent
<1>3. ASSUME NEW b \in Builds, NEW only \in BOOLEAN, Load(b, only) PROVE DatabaseInv'
  <2>1. /\ UNCHANGED <<database, keys, serving>> /\ host = "down"
        /\ \/ host' = "progress" /\ build' = b
           \/ UNCHANGED <<host, build>>
    BY <1>3 DEF Load
  <2>2. b # 0
    BY StartupAssumption DEF StartupAssumption
  <2>3. ToAdd("progress") = Shaped /\ ToDrop("progress") = OldColumns
    BY DEF ToAdd, ToDrop
  <2>4. ComingUp'
    BY <2>1, <2>2, <2>3 DEF DatabaseInv, ComingUp, Migrating
  <2> QED
    BY <2>1, <2>4 DEF DatabaseInv, UnstampedIsUnused, WaiterKnown, StampedIsShaped, WakesStaySilent
<1>4. CASE Migrate
  <2>1. UNCHANGED <<build, check, serving, keyFile, waiter, stamp, wakes>>
    BY <1>4 DEF Migrate, MigrateProgress, AddColumn, MigrateReply, AddTarget, FillTargets,
                DropIdentity, HostGoes
  <2>2. ComingUp'
    BY <1>4, <2>1, MigrateEffect DEF DatabaseInv, ComingUp, Migrating
  <2>3. StampedIsShaped'
    BY <1>4, <2>1, MigrateEffect, ShapedIs DEF DatabaseInv, StampedIsShaped, OldColumns
  <2>4. WaiterKnown'
    BY <1>4, <2>1, MigrateEffect DEF DatabaseInv, WaiterKnown, Migrating
  <2> QED
    BY <1>4, <2>1, <2>2, <2>3, <2>4, MigrateEffect DEF DatabaseInv, UnstampedIsUnused, WakesStaySilent
<1>5. CASE Stamp
  <2>1. /\ host = "stamp" /\ UNCHANGED <<columns, wakes, prepared, keys, serving>>
        /\ \/ host' = "down" /\ stamp' \in {stamp, build}
           \/ host' = "waiter" /\ stamp' = build /\ build' = build
    BY <1>5 DEF Stamp, HostStops, HostGoes, Ends
  <2>2. Shaped \subseteq columns /\ columns \cap OldColumns = {} /\ build # 0
    BY <2>1 DEF DatabaseInv, ComingUp, ToAdd, ToDrop, Migrating
  <2>3. prepared # "lost"
    BY DEF DatabaseInv, UnstampedIsUnused, StampedIsShaped
  <2>4. ComingUp'
    BY <2>1, <2>2 DEF ComingUp, Migrating
  <2>5. stamp' = 0 => stamp = 0
    BY <2>1, <2>2
  <2> QED
    BY <2>1, <2>2, <2>3, <2>4, <2>5
       DEF DatabaseInv, UnstampedIsUnused, WaiterKnown, StampedIsShaped, WakesStaySilent
<1>6. CASE Register
  <2>1. host = "waiter" /\ build = stamp /\ build # 0 /\ UNCHANGED <<columns, wakes, prepared, stamp, keyFile>>
    BY <1>6 DEF Register, DatabaseInv, ComingUp
  <2>2. CASE waiter[keyFile] = "ended"
    BY <1>6, <2>1, <2>2 DEF Register, HostGoes, DatabaseInv, ComingUp, UnstampedIsUnused, WaiterKnown,
                            StampedIsShaped, WakesStaySilent, Migrating
  <2>3. CASE waiter[keyFile] # "ended"
    <3>1. host' = "down" /\ waiter' = [waiter EXCEPT ![keyFile] = "live"]
      BY <1>6, <2>3 DEF Register, Ends
    <3>2. WaiterKnown'
      BY <2>1, <3>1 DEF DatabaseInv, WaiterKnown
    <3>3. ComingUp' /\ UnstampedIsUnused'
      BY <2>1, <3>1 DEF ComingUp, UnstampedIsUnused, Migrating
    <3> QED
      BY <2>1, <3>2, <3>3 DEF DatabaseInv, StampedIsShaped, WakesStaySilent
  <2> QED
    BY <2>2, <2>3
<1>7. CASE Mint
  <2>1. /\ host = "mint" /\ UNCHANGED <<columns, wakes, prepared, stamp, waiter, serving>>
        /\ \/ host' = "waiter" /\ build' = build
           \/ host' = "down"
    BY <1>7 DEF Mint, HostGoes, HostStops, Ends
  <2>2. {k \in Keys : waiter[k] = "live"} = {}
    BY <2>1 DEF DatabaseInv, WaiterKnown
  <2>3. WaiterKnown' /\ ComingUp'
    BY <2>1, <2>2 DEF DatabaseInv, WaiterKnown, ComingUp, Migrating
  <2> QED
    BY <2>1, <2>3 DEF DatabaseInv, UnstampedIsUnused, StampedIsShaped, WakesStaySilent
<1>8. CASE Serve
  <2>1. /\ serving # 0 /\ UNCHANGED <<columns, stamp, process, keys>>
        /\ wakes' # "event" /\ prepared' \in {prepared, "kept"}
    BY <1>8 DEF Serve, DatabaseInv, WakesStaySilent
  <2> QED
    BY <2>1 DEF DatabaseInv, ComingUp, UnstampedIsUnused, WaiterKnown, StampedIsShaped, WakesStaySilent
<1>9. CASE HostCrashes
  <2>1. UNCHANGED <<database, keys, serving>> /\ host' = "down"
    BY <1>9 DEF HostCrashes, HostStops, Ends
  <2> QED
    BY <2>1 DEF DatabaseInv, ComingUp, UnstampedIsUnused, WaiterKnown, StampedIsShaped,
                WakesStaySilent, Migrating
<1>10. ASSUME NEW k \in Keys, Retire(k) PROVE DatabaseInv'
  <2>1. UNCHANGED <<database, process, keyFile>> /\ waiter' = [waiter EXCEPT ![k] = "ended"]
    BY <1>10 DEF Retire
  <2>2. WaiterKnown'
    BY <2>1 DEF DatabaseInv, WaiterKnown
  <2> QED
    BY <2>1, <2>2 DEF DatabaseInv, ComingUp, UnstampedIsUnused, StampedIsShaped, WakesStaySilent
<1> QED
  BY <1>1, <1>2, <1>3, <1>4, <1>5, <1>6, <1>7, <1>8, <1>9, <1>10 DEF Next, HostSteps

-----------------------------------------------------------------------------
(* -------------------------------- the theorems ------------------------- *)

\* Set-up, the database and the waiter stay in step with each other.
THEOREM StartupInvHolds == Spec => []StartupInv
<1>1. Init => StartupInv
  <2> SUFFICES ASSUME Init PROVE StartupInv
    OBVIOUS
  <2> USE DEF Init
  <2>1. StartupTypeOK
    <3>1. registry \subseteq Bots /\ cut \in BOOLEAN /\ filled \subseteq {Dir[b] : b \in Bots}
      OBVIOUS
    <3>2. /\ init \in [Bots -> {"off", "dir", "git", "read", "truncate", "write", "done", "refused", "failed"}]
          /\ read \in [Bots -> SUBSET Bots]
      OBVIOUS
    <3>3. columns \subseteq OldColumns \cup Shaped /\ targets \in {"none", "null", "event"}
      OBVIOUS
    <3>4. wakes = "none" /\ prepared = "none" /\ stamp = 0 /\ build = 0 /\ serving = 0 /\ check = FALSE
      OBVIOUS
    <3>5. keyFile \in Keys /\ waiter \in [Keys -> {"unused", "live", "ended"}]
      BY StartupAssumption DEF Keys, StartupAssumption
    <3> HIDE DEF Init
    <3> QED
      BY <3>1, <3>2, <3>3, <3>4, <3>5 DEF StartupTypeOK
  <2>2. SetUpInv
    BY DEF SetUpInv, InitKnown, DoneIsKept, FilledByOne, RegistryIsSound, Running
  <2>3. DatabaseInv
    BY DEF DatabaseInv, ComingUp, UnstampedIsUnused, WaiterKnown, StampedIsShaped, WakesStaySilent,
           Migrating
  <2> QED
    BY <2>1, <2>2, <2>3 DEF StartupInv
<1>2. StartupInv /\ [Next]_vars => StartupInv'
  <2> SUFFICES ASSUME StartupInv, [Next]_vars PROVE StartupInv'
    OBVIOUS
  <2>1. StartupTypeOK'
    <3>1. CASE UNCHANGED vars
      BY <3>1 DEF StartupInv, StartupTypeOK, vars, setup, database, process, keys
    <3> QED
      BY <3>1, InitTypes, HostTypes DEF StartupInv, Next
  <2>2. SetUpInv'
    <3>1. CASE UNCHANGED vars
      BY <3>1, SetUpUnchanged DEF StartupInv, vars
    <3>2. CASE \/ \E b \in Builds, only \in BOOLEAN : Load(b, only)
               \/ HostSteps \/ Serve \/ HostExits \/ HostCrashes
               \/ \E k \in Keys : Retire(k)
      <4>1. UNCHANGED setup
        BY <3>2 DEF Load, HostSteps, Migrate, MigrateProgress, AddColumn, MigrateReply, AddTarget,
                    FillTargets, DropIdentity, Stamp, Register, Mint, Serve, HostExits, HostCrashes,
                    Retire
      <4> QED
        BY <4>1, SetUpUnchanged DEF StartupInv
    <3> QED
      BY <3>1, <3>2, SetUpKept DEF StartupInv, Next
  <2>3. DatabaseInv'
    BY DatabaseKept DEF StartupInv
  <2> QED
    BY <2>1, <2>2, <2>3 DEF StartupInv
<1> QED
  BY <1>1, <1>2, PTL DEF Spec

\* No two bots of the registry collide, who was set up stays registered unless a
\* write was cut, and a refused init left nothing in a directory.
THEOREM SetUpIsKeptHolds == Spec => []SetUpIsKept
<1>1. StartupInv => SetUpIsKept
  <2> SUFFICES ASSUME StartupInv PROVE SetUpIsKept
    OBVIOUS
  <2>1. DoneIsRegistered
    BY DEF StartupInv, SetUpInv, DoneIsKept, DoneIsRegistered, Idle
  <2>2. RefusedLeavesNothing
    BY DEF StartupInv, SetUpInv, FilledByOne, RefusedLeavesNothing
  <2> QED
    BY <2>1, <2>2 DEF StartupInv, SetUpInv, SetUpIsKept
<1> QED
  BY <1>1, StartupInvHolds, PTL

\* A stamped database is whole, a build serves it only if no newer one shaped it,
\* the stamp never goes back, wakes stay silent and one waiter is live.
THEOREM DatabaseKeepsItsHostHolds == Spec => DatabaseKeepsItsHost
<1>1. StartupInv => StampedIsShaped /\ WakesStaySilent /\ OneWaiter
  <2> SUFFICES ASSUME StartupInv PROVE OneWaiter
    BY DEF StartupInv, DatabaseInv
  <2>1. Cardinality({keyFile}) = 1 /\ IsFiniteSet({keyFile})
    BY FS_Singleton
  <2>2. {k \in Keys : waiter[k] = "live"} \subseteq {keyFile}
    BY DEF StartupInv, DatabaseInv, WaiterKnown
  <2> QED
    BY <2>1, <2>2, FS_Subset DEF OneWaiter
<1>2. StartupInv /\ [Next]_vars =>
        [stamp' >= stamp /\ (serving' # serving /\ serving' # 0 => serving' >= stamp)]_vars
  <2> SUFFICES ASSUME StartupInv, Next
               PROVE  stamp' >= stamp /\ (serving' # serving /\ serving' # 0 => serving' >= stamp)
    OBVIOUS
  <2>1. stamp \in Nat /\ build \in Nat
    <3>1. stamp \in Builds \cup {0} /\ build \in Builds \cup {0}
      BY DEF StartupInv, StartupTypeOK
    <3> QED
      BY <3>1, StartupAssumption DEF StartupAssumption
  <2>2. CASE Stamp
    BY <2>1, <2>2 DEF Stamp, Older, HostStops, HostGoes, Ends
  <2>3. CASE Register
    BY <2>1, <2>3 DEF Register, HostGoes, StartupInv, DatabaseInv, ComingUp, database
  <2>4. CASE ~Stamp /\ ~Register
    <3>1. stamp' = stamp /\ (serving' = serving \/ serving' = 0)
      BY <2>4 DEF Next, InitChecks, InitWrites, InitGit, AppendReads, AppendTruncates, AppendWrites,
                  InitCrashes, Load, HostSteps, Migrate, MigrateProgress, AddColumn, MigrateReply,
                  AddTarget, FillTargets, DropIdentity, Mint, Serve, HostExits, HostCrashes, Retire,
                  HostGoes, HostStops, database, process
    <3> QED
      BY <2>1, <3>1
  <2> QED
    BY <2>2, <2>3, <2>4
<1> QED
  BY <1>1, <1>2, StartupInvHolds, PTL DEF Spec, DatabaseKeepsItsHost, NoOlderServes
=============================================================================
