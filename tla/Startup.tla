-------------------------------- MODULE Startup --------------------------------
(***************************************************************************)
(* How a host comes up over what earlier ones left: the registry a person  *)
(* extends with `nostrherd init`, the database an older build wrote, and   *)
(* the waiter registered in Kelpie.  Every step is a commit, a file or a   *)
(* command, and the process may stop after each.  A directory, an id and a *)
(* version are model values; a table is the set of columns it has.         *)
(***************************************************************************)
EXTENDS Naturals, Sequences, FiniteSets, SequencesExt

CONSTANTS
  Bots,         \* invocations of init
  Id, Dir,      \* the id and the directory each is given
  GitFails,     \* those whose `git init` fails
  Builds,       \* builds of the host, numbered in release order
  MaxOpens,     \* bound: times a build is run
  MaxCrashes,   \* bound: processes cut short
  MaxRetired    \* bound: times an operator retires the waiter

ASSUME StartupAssumption ==
  /\ GitFails \subseteq Bots /\ Builds \subseteq Nat \ {0}
  /\ MaxOpens \in Nat /\ MaxCrashes \in Nat /\ MaxRetired \in Nat

VARIABLES
  registry,     \* the entries of bots.toml
  cut,          \* a write of the file was cut short
  filled,       \* directories with files in them
  init,         \* the next step of each init
  read,         \* the entries an init read
  columns,      \* what the database has
  targets,      \* publish targets of the turns an old build left
  wakes,        \* publish target of the wakes this schema queued
  prepared,     \* ids prepared under this schema
  stamp,        \* host_version, 0 when absent
  host,         \* the next step of the process that comes up
  build,        \* its build
  check,        \* it was given --check
  serving,      \* the build that serves, 0 for none
  keyFile,      \* the waiter key on disk, 0 for none
  waiter,       \* Kelpie: what each key was used for
  opens, crashes

setup == <<registry, cut, filled, init, read>>
database == <<columns, targets, wakes, prepared, stamp>>
process == <<host, build, check, serving>>
keys == <<keyFile, waiter>>
bounds == <<opens, crashes>>
vars == <<setup, database, process, keys, bounds>>

Keys == 0..(MaxRetired + 1)

\* The oldest database the migrations know, and a new one.
OldColumns == {"progress dispatched", "reply not null", "occupant", "backend"}

Added == <<"claimed", "prepared", "dispatch failed", "ask body", "publish target",
           "delete pending", "bot", "retry">>

Shaped == ToSet(Added)

StartupTypeOK ==
  /\ registry \subseteq Bots /\ cut \in BOOLEAN /\ filled \subseteq {Dir[b] : b \in Bots}
  /\ init \in [Bots -> {"off", "dir", "git", "read", "truncate", "write", "done", "refused", "failed"}]
  /\ read \in [Bots -> SUBSET Bots]
  /\ columns \subseteq OldColumns \cup Shaped
  /\ targets \in {"none", "null", "event"} /\ wakes \in {"none", "null", "event"}
  /\ prepared \in {"none", "kept", "lost"}
  /\ {stamp, build, serving} \subseteq Builds \cup {0} /\ check \in BOOLEAN
  /\ keyFile \in Keys /\ waiter \in [Keys -> {"unused", "live", "ended"}]

Init ==
  /\ registry = {} /\ cut = FALSE /\ filled = {}
  /\ init = [b \in Bots |-> "off"] /\ read = [b \in Bots |-> {}]
  /\ \/ columns = {} /\ targets = "none"
     \/ columns = OldColumns /\ targets = "null"
  /\ wakes = "none" /\ prepared = "none" /\ stamp = 0
  /\ host = "down" /\ build = 0 /\ check = FALSE /\ serving = 0
  /\ keyFile = 0 /\ waiter = [k \in Keys |-> "unused"]
  /\ opens = 0 /\ crashes = 0

-----------------------------------------------------------------------------
(* ---------------------------- nostrherd init ---------------------------- *)

InitGoes(b, step) == init' = [init EXCEPT ![b] = step]

Idle == \A b \in Bots : init[b] \in {"off", "done", "refused", "failed"}

\* BotRegistry::from_toml: one id twice is an error of the whole file.
Parses == \A a, b \in registry : a # b => Id[a] # Id[b]

\* check_registry: the id and the directory are new; an empty file is no error.
RegistryAccepts(b) ==
  Parses /\ \A other \in registry : Id[other] # Id[b] /\ Dir[other] # Dir[b]

\* One person runs one init at a time.
InitChecks(b) ==
  /\ Idle /\ init[b] = "off"
  /\ InitGoes(b, IF RegistryAccepts(b) THEN "dir" ELSE "refused")
  /\ UNCHANGED <<registry, cut, filled, read, database, process, keys, bounds>>

\* init::write: only a directory that holds nothing is filled.
InitWrites(b) ==
  /\ init[b] = "dir"
  /\ IF Dir[b] \in filled THEN InitGoes(b, "refused") /\ UNCHANGED filled
     ELSE InitGoes(b, "git") /\ filled' = filled \cup {Dir[b]}
  /\ UNCHANGED <<registry, cut, read, database, process, keys, bounds>>

InitGit(b) ==
  /\ init[b] = "git" /\ InitGoes(b, IF b \in GitFails THEN "failed" ELSE "read")
  /\ UNCHANGED <<registry, cut, filled, read, database, process, keys, bounds>>

\* Mutant: the registry is opened to be written anew.
AppendReadsNothing(b) ==
  /\ init[b] = "read" /\ InitGoes(b, "truncate") /\ UNCHANGED read
  /\ UNCHANGED <<registry, cut, filled, database, process, keys, bounds>>

\* append_registry_entry reads the file, then writes it: truncated, then whole.
AppendReads(b) ==
  /\ init[b] = "read" /\ InitGoes(b, "truncate") /\ read' = [read EXCEPT ![b] = registry]
  /\ UNCHANGED <<registry, cut, filled, database, process, keys, bounds>>

AppendTruncates(b) ==
  /\ init[b] = "truncate" /\ InitGoes(b, "write")
  /\ registry' = {}
  /\ UNCHANGED <<cut, filled, read, database, process, keys, bounds>>

AppendWrites(b) ==
  /\ init[b] = "write" /\ InitGoes(b, "done")
  /\ registry' = read[b] \cup {b}
  /\ UNCHANGED <<cut, filled, read, database, process, keys, bounds>>

InitCrashes(b) ==
  /\ init[b] \in {"git", "read", "truncate", "write"} /\ crashes < MaxCrashes
  /\ crashes' = crashes + 1 /\ InitGoes(b, "failed")
  /\ cut' = (cut \/ init[b] = "write")
  /\ UNCHANGED <<registry, filled, read, database, process, keys, opens>>

-----------------------------------------------------------------------------
(* ------------------------------- the host ------------------------------- *)

HostGoes(step) == host' = step /\ UNCHANGED <<build, check, serving>>
Ends == host' = "down" /\ build' = 0 /\ check' = FALSE
HostStops == Ends /\ UNCHANGED serving

\* load_host: a registry that is missing, empty or rejected ends the run.  --check is run
\* while another build serves, a host is started when none does.
Load(b, only) ==
  /\ host = "down" /\ opens < MaxOpens /\ opens' = opens + 1
  /\ only \/ serving = 0
  /\ IF registry # {} /\ Parses THEN host' = "progress" /\ build' = b /\ check' = only
     ELSE UNCHANGED <<host, build, check>>
  /\ UNCHANGED serving
  /\ UNCHANGED <<setup, database, keys, crashes>>

\* migrate_progress_posts_without_dispatched: one transaction.
MigrateProgress ==
  /\ host = "progress" /\ HostGoes("claimed")
  /\ columns' = columns \ {"progress dispatched"}
  /\ UNCHANGED <<setup, targets, wakes, prepared, stamp, keys, bounds>>

\* add_column_if_missing, each a commit of its own.
AddColumn(at, column, next) ==
  /\ host = at /\ HostGoes(next)
  /\ columns' = columns \cup {column}
  /\ UNCHANGED <<setup, targets, wakes, prepared, stamp, keys, bounds>>

\* migrate_outbound_reply_to_nullable: the table is made again, without the
\* columns that came later.
MigrateReply ==
  /\ host = "nullable" /\ HostGoes("prepared")
  /\ IF "reply not null" \in columns
       THEN /\ columns' = columns \ {"reply not null", "prepared", "bot", "retry"}
            /\ prepared' = IF prepared = "kept" THEN "lost" ELSE prepared
       ELSE UNCHANGED <<columns, prepared>>
  /\ UNCHANGED <<setup, targets, wakes, stamp, keys, bounds>>

\* migrate_turn_wake_columns: the column, then its rows.
AddTarget ==
  /\ host = "publish target"
  /\ HostGoes(IF "publish target" \in columns THEN "delete pending" ELSE "fill")
  /\ columns' = columns \cup {"publish target"}
  /\ UNCHANGED <<setup, targets, wakes, prepared, stamp, keys, bounds>>

FillTargets ==
  /\ host = "fill" /\ HostGoes("delete pending")
  /\ targets' = IF targets = "null" THEN "event" ELSE targets
  /\ UNCHANGED <<setup, columns, wakes, prepared, stamp, keys, bounds>>

\* migrate_to_name_identity
DropIdentity ==
  /\ host = "identity" /\ HostGoes("stamp")
  /\ columns' = columns \ {"occupant", "backend"}
  /\ UNCHANGED <<setup, targets, wakes, prepared, stamp, keys, bounds>>

Migrate ==
  \/ MigrateProgress
  \/ AddColumn("claimed", "claimed", "nullable")
  \/ MigrateReply
  \/ AddColumn("prepared", "prepared", "dispatch failed")
  \/ AddColumn("dispatch failed", "dispatch failed", "ask body")
  \/ AddColumn("ask body", "ask body", "publish target")
  \/ AddTarget \/ FillTargets
  \/ AddColumn("delete pending", "delete pending", "bot")
  \/ AddColumn("bot", "bot", "retry")
  \/ AddColumn("retry", "retry", "identity")
  \/ DropIdentity

\* Mutant: versions are compared as text.
OlderAsText(a, b) == \/ a >= 10 /\ b < 10
                     \/ (a < 10 <=> b < 10) /\ a < b

\* semver
Older(a, b) == a < b

\* record_host_version, after which --check ends the run.
Stamp ==
  /\ host = "stamp"
  /\ IF stamp # 0 /\ Older(build, stamp) THEN HostStops /\ UNCHANGED stamp
     ELSE /\ stamp' = build
          /\ IF check THEN HostStops ELSE HostGoes("waiter")
  /\ UNCHANGED <<setup, columns, targets, wakes, prepared, keys, bounds>>

\* register_host_waiter: the key on disk, or the default, is one waiter.
Register ==
  /\ host = "waiter"
  /\ IF waiter[keyFile] = "ended" THEN HostGoes("mint") /\ UNCHANGED waiter
     ELSE /\ Ends /\ serving' = build
          /\ waiter' = [waiter EXCEPT ![keyFile] = "live"]
  /\ UNCHANGED <<setup, database, keyFile, bounds>>

Unused == {k \in Keys \ {0} : waiter[k] = "unused"}
Fresh == CHOOSE k \in Unused : \A other \in Unused : k <= other

\* mint_waiter_key: the file is written before Kelpie hears of the key; a crash
\* in the write leaves it empty, which reads as the default.
Mint ==
  /\ host = "mint" /\ Unused # {}
  /\ \/ keyFile' = Fresh /\ HostGoes("waiter") /\ UNCHANGED crashes
     \/ crashes < MaxCrashes /\ crashes' = crashes + 1 /\ keyFile' = 0 /\ HostStops
  /\ UNCHANGED <<setup, database, waiter, opens>>

\* The host serves: a watch queues a wake, an attempt gets its ids.
Serve ==
  /\ serving # 0
  /\ wakes' = (IF wakes = "none" THEN "null" ELSE wakes)
  /\ prepared' = (IF prepared = "none" THEN "kept" ELSE prepared)
  /\ UNCHANGED <<setup, columns, targets, stamp, process, keys, bounds>>

HostExits ==
  /\ serving # 0 /\ serving' = 0 /\ UNCHANGED <<host, build, check>>
  /\ UNCHANGED <<setup, database, keys, bounds>>

HostCrashes ==
  /\ host # "down" /\ crashes < MaxCrashes
  /\ crashes' = crashes + 1 /\ HostStops
  /\ UNCHANGED <<setup, database, keys, opens>>

\* kelpie waiter retire, by an operator
Retire(k) ==
  /\ waiter[k] = "live" /\ Cardinality({j \in Keys : waiter[j] = "ended"}) < MaxRetired
  /\ waiter' = [waiter EXCEPT ![k] = "ended"]
  /\ UNCHANGED <<setup, database, process, keyFile, bounds>>

HostSteps == Migrate \/ Stamp \/ Register \/ Mint

Next ==
  \/ \E b \in Bots : InitChecks(b) \/ InitWrites(b) \/ InitGit(b) \/ AppendReads(b)
                       \/ AppendTruncates(b) \/ AppendWrites(b) \/ InitCrashes(b)
  \/ \E b \in Builds, only \in BOOLEAN : Load(b, only)
  \/ HostSteps \/ Serve \/ HostExits \/ HostCrashes
  \/ \E k \in Keys : Retire(k)

Spec == Init /\ [][Next]_vars

-----------------------------------------------------------------------------
\* Every bot of the registry has an id and a corpus of its own, whatever was
\* refused or cut short: two would stop the host for all of them.
RegistryIsSound ==
  \A a, b \in registry : a # b => Id[a] # Id[b] /\ Dir[a] # Dir[b]

\* A bot that was set up stays registered, unless a later write was cut.
DoneIsRegistered ==
  Idle /\ ~cut => \A b \in Bots : init[b] = "done" => b \in registry

\* "a rejected bot leaves no half-made corpus behind": what is in its directory
\* was put there by another.
RefusedLeavesNothing ==
  \A b \in Bots :
    init[b] = "refused" /\ Dir[b] \in filled =>
      \E other \in Bots : Dir[other] = Dir[b] /\ init[other] \notin {"off", "dir", "refused"}

\* What set-up promises of the registry and the corpora.
SetUpIsKept ==
  StartupTypeOK /\ RegistryIsSound /\ DoneIsRegistered /\ RefusedLeavesNothing

\* A database with a stamp has the whole schema, whatever migrations were cut
\* short before (D64), and nothing its rows held was dropped with a column.
StampedIsShaped ==
  stamp # 0 => Shaped \subseteq columns /\ columns \cap OldColumns = {} /\ prepared # "lost"

\* No build comes to serve a database that a newer one has shaped, and none
\* refused moves its stamp back (D64).
NoOlderServes ==
  [][stamp' >= stamp /\ (serving' # serving /\ serving' # 0 => serving' >= stamp)]_vars

\* The wakes stay without a publish target, however often the database is
\* opened: a final is published for them only by the occupant's own words.
WakesStaySilent == wakes # "event"

\* There is one waiter under the host's name: the asks it sent are answered to
\* the inbox it reads.
OneWaiter == Cardinality({k \in Keys : waiter[k] = "live"}) <= 1

\* What a start promises of the database and of Kelpie, whatever builds were
\* started, refused, cut short and checked before.
DatabaseKeepsItsHost ==
  [](StampedIsShaped /\ WakesStaySilent /\ OneWaiter) /\ NoOlderServes

\* Refuted by TLC (README, "Where the code parts from its documents"):
\* "a half-applied migration leaves the database naming the build that last
\* fully shaped it": with a stamp, the turns of the old build have their target.
StampedIsFilled == stamp # 0 => targets # "null"
=============================================================================
