---------------------------- MODULE Maintenance ----------------------------
(***************************************************************************)
(* The operator's command line (citadel-cli/src/commands) at work on the   *)
(* key directory of a server that may be running: backup and restore       *)
(* (citadel-keystore/src/backup.rs), the hierarchy migration               *)
(* (migration.rs), the doctor (doctor.rs, hierarchy.rs) and the key        *)
(* commands.  The command line is a process of its own with its own        *)
(* Keystore over the same files: nothing locks the directory against the   *)
(* server.  A directory is listed file by file, a restore writes key by    *)
(* key, a migration makes its keys one after another, and a command may    *)
(* be killed between any two steps.                                        *)
(*                                                                         *)
(* Keystore supplies the records and the engine's operations, for the      *)
(* server's processes and for the command line's.                          *)
(***************************************************************************)
EXTENDS Keystore

CONSTANTS
  Cli,             \* the process of the command line
  ServerRequests,  \* the calls the server's clients make
  KeyRequests,     \* the calls the key commands make
  Named,           \* ids of keys with the names a migration is given
  Flat,            \* DEKs of a store from before the hierarchy
  Commands,        \* the other commands the operator runs
  MaxCommands,     \* bound: commands
  MaxServed,       \* bound: calls the server's clients make
  MaxLosses,       \* bound: losses of the key directory
  MaxFaults        \* bound: crashes and failed writes

Environment ==
  [master : {"absent", "malformed", "right", "other"}, \* CITADEL_MASTER_KEY
   plaintext : BOOLEAN,                   \* CITADEL_ALLOW_PLAINTEXT_KEYS=1
   development : BOOLEAN,                 \* CITADEL_ENV=development
   dir : {"missing", "unreadable", "0700", "open"},
   src : BOOLEAN,                         \* a src/ directory in sight
   replay : {"memory", "file", "redis"}]  \* CITADEL_REPLAY_STORE

Command ==
  [op : {"create", "verify", "restore", "migrate", "doctor", "key"},
   flag : {"none", "dry_run", "overwrite"}, env : Environment]

Level == {"Root", "Domain", "KeyEncrypting"}

ASSUME MaintenanceConstants ==
  /\ Cli \in Proc
  /\ ServerRequests \subseteq Requests /\ KeyRequests \subseteq Requests
  /\ Named \subseteq KeyId /\ Flat \subseteq KeyId
  /\ Commands \subseteq Command
  /\ {MaxCommands, MaxServed, MaxLosses, MaxFaults} \subseteq Nat

VARIABLES
  command,    \* the command in progress, or the last one
  step,       \* what it does next
  pending,    \* keys it has yet to read, restore or rewrap
  listed,     \* the records it has read
  missing,    \* plan.keys_to_create, by level
  created,    \* created_ids: the key of each level
  target,     \* the key it is at
  failed,     \* errors > 0
  exit,       \* exit code of the last command
  archive,    \* the backup file
  lineage,    \* history: where the files in the key directory come from
  disturbed,  \* history: the server wrote a key since the last command began
  commands, served, losses, faults  \* history

progress == <<command, step, pending, listed, missing, created, target, failed, exit>>
counts == <<commands, served, losses, faults>>
maintenanceVars == <<vars, progress, archive, lineage, disturbed, counts>>

Servers == Proc \ {Cli}
Stored == {k \in KeyId : file[k] # "absent"}
Record(k) == [key |-> k, meta |-> store[k]]

NoEnvironment == [master |-> "absent", plaintext |-> FALSE, development |-> FALSE,
                  dir |-> "missing", src |-> FALSE, replay |-> "memory"]
NoCommand == [op |-> "key", flag |-> "none", env |-> NoEnvironment]
NoArchive == [file |-> "none", master |-> "absent", keys |-> {}, quiet |-> FALSE,
              readable |-> {}]

\* A DEK as versions before the hierarchy stored it: no parent, and wrapped
\* under the master key.
FlatMeta == [type |-> "DataEncrypting", state |-> "Active", parent |-> NoKey,
             versions |-> <<[Keypair(1, "DataEncrypting") EXCEPT !.sk = "Encrypted"]>>,
             current |-> 1, usage |-> 0]

\* A store with the hierarchy, or one from before it.
StoreInit ==
  \/ Init
  \/ /\ file = [k \in KeyId |-> IF k \in Flat THEN "json" ELSE "absent"]
     /\ store = [k \in KeyId |-> IF k \in Flat THEN FlatMeta ELSE NoMeta]
     /\ minted = [k \in KeyId |-> IF k \in Flat THEN 1 ELSE 0]
     /\ blobs = {}
     /\ sealed = [k \in KeyId |-> 0]
     /\ pc = [p \in Proc |-> "idle"]
     /\ req = [p \in Proc |-> NoRequest]
     /\ meta = [p \in Proc |-> NoMeta]
     /\ fresh = [p \in Proc |-> NoVersion]
     /\ queue = [p \in Proc |-> <<>>]
     /\ snap = [p \in Proc |-> {}]
     /\ errors = [p \in Proc |-> {}]

MaintenanceInit ==
  /\ StoreInit
  /\ command = NoCommand
  /\ step = "idle"
  /\ pending = {}
  /\ listed = {}
  /\ missing = {}
  /\ created = [t \in Level |-> NoKey]
  /\ target = NoKey
  /\ failed = FALSE
  /\ exit = 0
  /\ archive = NoArchive
  /\ lineage = "live"
  /\ disturbed = FALSE
  /\ commands = 0 /\ served = 0 /\ losses = 0 /\ faults = 0

-----------------------------------------------------------------------------
(* Commands begin and end                                                   *)

\* The process exits with a code; its variables go with it.
Exit(code) ==
  /\ step' = "idle"
  /\ exit' = code
  /\ pending' = {} /\ listed' = {} /\ missing' = {}
  /\ created' = [t \in Level |-> NoKey]
  /\ target' = NoKey
  /\ failed' = FALSE
  /\ UNCHANGED command

ExitByErrors == Exit(IF failed THEN 1 ELSE 0)

Starts(c, first) ==
  /\ step = "idle"
  /\ commands < MaxCommands
  /\ commands' = commands + 1
  /\ command' = c
  /\ step' = first
  /\ disturbed' = FALSE
  /\ UNCHANGED <<listed, missing, created, target, failed, exit, archive, lineage,
                 served, losses, faults>>

Writable(c) == c.env.master \in {"right", "other"} \* load_master_key succeeds

\* cmd_create, cmd_hierarchy and doctor begin with a listing.  A migration that
\* is to write needs the server's own master key.
BeginListing(c) ==
  /\ c \in Commands
  /\ c.op = "create" => Writable(c)
  /\ c.op = "migrate" => c.env.master = "right"
  /\ c.op \in {"create", "migrate", "doctor"}
  /\ Starts(c, "list")
  /\ pending' = Stored
  /\ UNCHANGED vars

\* decrypt_backup: all of a file written under the same master key.
Decrypts(a, c) == a.file = "whole" /\ a.master = c.env.master

\* cmd_verify, and cmd_restore up to its loop.
BeginReading(c) ==
  /\ c \in Commands
  /\ c.op \in {"verify", "restore"}
  /\ Writable(c)
  /\ archive.file # "none"
  /\ Starts(c, "opened")
  /\ pending' = IF Decrypts(archive, c) THEN {r.key : r \in archive.keys} ELSE {}
  /\ UNCHANGED vars

VerifyExits ==
  /\ step = "opened"
  /\ command.op = "verify" \/ command.flag = "dry_run" \/ ~Decrypts(archive, command)
  /\ Exit(IF Decrypts(archive, command) THEN 0 ELSE 1)
  /\ UNCHANGED <<vars, archive, lineage, disturbed, counts>>

-----------------------------------------------------------------------------
(* list()                                                                   *)

\* The directory is read one file after another.
ListFile(k) ==
  /\ step = "list"
  /\ k \in pending
  /\ Readable(k)
  /\ listed' = listed \cup {Record(k)}
  /\ pending' = pending \ {k}
  /\ UNCHANGED <<vars, command, step, missing, created, target, failed, exit,
                 archive, lineage, disturbed, counts>>

\* One file that does not parse fails the listing.  A backup stops; a migration
\* and the doctor go on with no keys at all (unwrap_or_default).
ListBreaks(k) ==
  /\ step = "list"
  /\ k \in pending
  /\ ~Readable(k)
  /\ IF command.op = "create" THEN Exit(1)
     ELSE /\ step' = "listed"
          /\ listed' = {} /\ pending' = {}
          /\ UNCHANGED <<command, missing, created, target, failed, exit>>
  /\ UNCHANGED <<vars, archive, lineage, disturbed, counts>>

ListEnds ==
  /\ step = "list"
  /\ pending = {}
  /\ step' = "listed"
  /\ UNCHANGED <<vars, command, pending, listed, missing, created, target, failed, exit,
                 archive, lineage, disturbed, counts>>

-----------------------------------------------------------------------------
(* Backup                                                                   *)

\* fs::write truncates the file, and then writes it.
TruncateArchive ==
  /\ step = "listed"
  /\ command.op = "create"
  /\ step' = "write"
  /\ archive' = [NoArchive EXCEPT !.file = "torn"]
  /\ lineage' = IF lineage = "restoring" THEN "mixed" ELSE lineage
  /\ UNCHANGED <<vars, command, pending, listed, missing, created, target, failed, exit,
                 disturbed, counts>>

\* create_backup: the payload is every record listed, whole.
WriteArchive ==
  /\ step = "write"
  /\ archive' = [file |-> "whole", master |-> command.env.master, keys |-> listed,
                 quiet |-> ~disturbed /\ lineage \in {"live", "restored"},
                 readable |-> {b \in blobs : Decryptable(b)}]
  /\ Exit(0)
  /\ UNCHANGED <<vars, lineage, disturbed, counts>>

-----------------------------------------------------------------------------
(* Restore                                                                  *)

Archived(k) == (CHOOSE r \in archive.keys : r.key = k).meta

BeginRestore ==
  /\ step = "opened"
  /\ command.op = "restore"
  /\ command.flag # "dry_run"
  /\ Decrypts(archive, command)
  /\ step' = "restore"
  /\ UNCHANGED <<vars, command, pending, listed, missing, created, target, failed, exit,
                 archive, lineage, disturbed, counts>>

\* storage.get: a key that is there is left alone without --overwrite; a file
\* that cannot be read is an error even with it.
Conflict(k) == Readable(k) /\ command.flag # "overwrite"
Unreadable(k) == file[k] = "zeroed"

RestorePasses(k) ==
  /\ step = "restore"
  /\ k \in pending
  /\ Conflict(k) \/ Unreadable(k)
  /\ pending' = pending \ {k}
  /\ failed' = (failed \/ Unreadable(k))
  /\ UNCHANGED <<vars, command, step, listed, missing, created, target, exit,
                 archive, lineage, disturbed, counts>>

RestoreChecks(k) ==
  /\ step = "restore"
  /\ k \in pending
  /\ ~Conflict(k) /\ ~Unreadable(k)
  /\ step' = "put"
  /\ target' = k
  /\ pending' = pending \ {k}
  /\ UNCHANGED <<vars, command, listed, missing, created, failed, exit,
                 archive, lineage, disturbed, counts>>

Fault1 == faults < MaxFaults /\ faults' = faults + 1 /\ UNCHANGED <<commands, served, losses>>

\* Mutant: a failed write is printed and forgotten.
Uncounted == UNCHANGED failed
CountError == failed' = TRUE

\* storage.put(key); it reports an error although the file is in place when only
\* the directory could not be synced.
RestorePuts ==
  /\ step = "put"
  /\ Write(target, Archived(target))
  /\ step' = "restore"
  /\ lineage' = IF lineage \in {"lost", "restoring"} /\ archive.quiet
                THEN "restoring" ELSE "mixed"
  /\ \/ UNCHANGED <<failed, counts>>
     \/ CountError /\ Fault1
  /\ UNCHANGED <<history, local, walk, command, pending, listed, missing, created, target,
                 exit, archive, disturbed>>

RestorePutFails ==
  /\ step = "put"
  /\ step' = "restore"
  /\ CountError
  /\ Fault1
  /\ UNCHANGED <<vars, command, pending, listed, missing, created, target, exit,
                 archive, lineage, disturbed>>

RestoreExits ==
  /\ step = "restore"
  /\ pending = {}
  /\ ExitByErrors
  /\ lineage' = IF lineage = "restoring" /\ ~failed THEN "restored" ELSE lineage
  /\ UNCHANGED <<vars, archive, disturbed, counts>>

-----------------------------------------------------------------------------
(* Migration                                                                *)

IsLevel(r, t) == r.meta.type = t /\ r.meta.state = "Active" /\ r.key \in Named

\* plan_migration: what is missing of the named hierarchy, and the DEKs in use
\* whose current version no key wraps.
keys_to_create(records) == {t \in Level : ~\E r \in records : IsLevel(r, t)}
keys_to_rewrap(records) ==
  {r.key : r \in {q \in records : /\ q.meta.type = "DataEncrypting"
                                  /\ q.meta.state \in CanDecrypt
                                  /\ Current(q.meta).by = NoKey}}

Planned(records) == keys_to_create(records) = {} /\ keys_to_rewrap(records) = {}

\* created_ids as pre-populated from a second listing, which may fail as well.
Existing(t) ==
  LET found == {k \in Stored : IsLevel(Record(k), t)}
  IN  IF ListFails \/ found = {} THEN NoKey ELSE CHOOSE k \in found : TRUE

PlanExits ==
  /\ step = "listed"
  /\ command.op = "migrate"
  /\ command.flag = "dry_run" \/ Planned(listed)
  /\ Exit(0)
  /\ UNCHANGED <<vars, archive, lineage, disturbed, counts>>

Plan ==
  /\ step = "listed"
  /\ command.op = "migrate"
  /\ command.flag # "dry_run"
  /\ ~Planned(listed)
  /\ missing' = keys_to_create(listed)
  /\ pending' = keys_to_rewrap(listed)
  /\ created' = [t \in Level |-> Existing(t)]
  /\ step' = "create"
  /\ UNCHANGED <<vars, command, listed, target, failed, exit,
                 archive, lineage, disturbed, counts>>

\* The plan lists Root, Domain and KEK in this order.
NextLevel ==
  IF "Root" \in missing THEN "Root" ELSE IF "Domain" \in missing THEN "Domain"
  ELSE "KeyEncrypting"
ParentOf(t) ==
  CASE t = "Root" -> NoKey
    [] t = "Domain" -> created["Root"]
    [] OTHER -> created["Domain"]

\* Random ids do not repeat.
NewIds == {k \in Named : minted[k] = 0}
NewRequest == Generation(CHOOSE k \in NewIds : TRUE, NextLevel, ParentOf(NextLevel))

CliIdle == pc[Cli] = "idle"

\* ks.generate(...), as far as its first storage call.
MigrateGenerates ==
  /\ step = "create"
  /\ missing # {}
  /\ NewIds # {}
  /\ Generate(Cli, NewRequest)
  /\ step' = "generate"
  /\ target' = NewRequest.key
  /\ UNCHANGED <<command, pending, listed, missing, created, failed, exit,
                 archive, lineage, disturbed, counts>>

\* generate refuses: the parent could not be made before.
MigrateRefused ==
  /\ step = "create"
  /\ missing # {}
  /\ NewIds # {}
  /\ ~ParentAccepts(NewRequest)
  /\ missing' = missing \ {NextLevel}
  /\ failed' = TRUE
  /\ UNCHANGED <<vars, command, step, pending, listed, created, target, exit,
                 archive, lineage, disturbed, counts>>

\* ks.activate(&id)
MigrateActivates ==
  /\ step = "activate"
  /\ Activate(Cli, Call("activate", target))
  /\ step' = "activated"
  /\ UNCHANGED <<command, pending, listed, missing, created, target, failed, exit,
                 archive, lineage, disturbed, counts>>

MigrateInactive ==
  /\ step = "activate"
  /\ ~(Readable(target) /\ CanTransition(store[target].state, "Active"))
  /\ step' = "create"
  /\ missing' = missing \ {NextLevel}
  /\ failed' = TRUE
  /\ UNCHANGED <<vars, command, pending, listed, created, target, exit,
                 archive, lineage, disturbed, counts>>

\* ks.rewrap(&target_id, Some(kek))
MigrateRewraps(k) ==
  /\ step = "create"
  /\ missing = {}
  /\ k \in pending
  /\ created["KeyEncrypting"] # NoKey
  /\ Rewrap(Cli, Rewrapping(k, created["KeyEncrypting"]))
  /\ step' = "rewrap"
  /\ pending' = pending \ {k}
  /\ UNCHANGED <<command, listed, missing, created, target, failed, exit,
                 archive, lineage, disturbed, counts>>

\* There is no KEK, or rewrap cannot read or open the key.
CannotRewrap(k) ==
  \/ created["KeyEncrypting"] = NoKey
  \/ ~Readable(k)
  \/ Current(store[k]).sk = "Destroyed"
  \/ ~Opens(k, store[k].current, TRUE)

MigrateCannotRewrap(k) ==
  /\ step = "create"
  /\ missing = {}
  /\ k \in pending
  /\ CannotRewrap(k)
  /\ pending' = pending \ {k}
  /\ failed' = TRUE
  /\ UNCHANGED <<vars, command, step, listed, missing, created, target, exit,
                 archive, lineage, disturbed, counts>>

MigrateExits ==
  /\ step = "create"
  /\ missing = {} /\ pending = {}
  /\ ExitByErrors
  /\ UNCHANGED <<vars, archive, lineage, disturbed, counts>>

-----------------------------------------------------------------------------
(* The key commands: one call of the engine each.                           *)

KeyCommand(r) ==
  /\ r \in KeyRequests
  /\ Starts(NoCommand, "key")
  /\ Begin(Cli, r)
  /\ UNCHANGED pending

-----------------------------------------------------------------------------
(* The engine at work for the command line                                  *)

\* Where the files come from once an operation of the engine wrote one.
LineageAfterWrite ==
  lineage' = IF disk' = disk THEN lineage
             ELSE IF lineage \in {"restoring", "mixed"} THEN "mixed" ELSE "live"

CliWorks ==
  /\ Wrap(Cli) \/ ZeroFile(Cli)
  /\ LineageAfterWrite
  /\ UNCHANGED <<progress, archive, disturbed, counts>>

\* Mutant: a key whose activation failed is taken for created.
CallFailedUncounted ==
  /\ missing' = missing \ {NextLevel}
  /\ UNCHANGED <<failed, created>>
\* An error of generate or activate ends the work on that level, an error of
\* rewrap that on the key.
CallFailed ==
  /\ missing' = IF step \in {"generate", "activated"} THEN missing \ {NextLevel} ELSE missing
  /\ failed' = TRUE
  /\ UNCHANGED created

CallSucceeded ==
  /\ IF step = "activated"
     THEN /\ created' = [created EXCEPT ![NextLevel] = target]
          /\ missing' = missing \ {NextLevel}
     ELSE UNCHANGED <<created, missing>>
  /\ UNCHANGED failed

CliPut ==
  /\ Put(Cli)
  /\ LineageAfterWrite
  /\ IF step = "key" THEN Exit(0)
     ELSE /\ CallSucceeded
          /\ step' = IF step = "generate" THEN "activate" ELSE "create"
          /\ UNCHANGED <<command, pending, listed, target, exit>>
  /\ UNCHANGED <<archive, disturbed, counts>>

CliErr ==
  /\ LineageAfterWrite
  /\ IF step = "key" THEN Exit(1)
     ELSE /\ CallFailed
          /\ step' = "create"
          /\ UNCHANGED <<command, pending, listed, target, exit>>
  /\ UNCHANGED <<archive, disturbed>>

CliRefused == WrapFails(Cli) /\ CliErr /\ UNCHANGED counts
CliWriteFails == (PutFails(Cli) \/ PutUnacknowledged(Cli)) /\ CliErr /\ Fault1

-----------------------------------------------------------------------------
(* Doctor                                                                   *)

Status == {"Pass", "Warn", "Fail"}
If(bad, status) == IF bad THEN status ELSE "Pass"

check_master_key_present(e) == If(e.master = "absent", "Fail")
check_master_key_valid(e) == If(e.master \in {"absent", "malformed"}, "Fail")
check_plaintext_mode_disabled(e) ==
  IF ~e.plaintext /\ e.master # "absent" THEN "Pass"
  ELSE IF e.plaintext /\ e.development THEN "Warn" ELSE "Fail"
check_storage_permissions(e) ==
  CASE e.dir = "0700" -> "Pass" [] e.dir = "missing" -> "Warn" [] OTHER -> "Fail"
check_no_orphaned_src(e) == If(e.src, "Warn")
check_replay_store_backend(e) == If(e.replay \notin {"redis", "file"}, "Warn")

Ids(records) == {r.key : r \in records}
Find(records, k) == (CHOOSE r \in records : r.key = k).meta
\* The wrapping_key_id of the current version.
Wrapper(m) == Current(m).by

\* validate_wrapping_graph, but for the cycles.
OrphanedParent(records, m) == Wrapper(m) # NoKey /\ Wrapper(m) \notin Ids(records)
InvalidDirection(records, m) ==
  /\ Wrapper(m) \in Ids(records)
  /\ <<Find(records, Wrapper(m)).type, m.type>> \notin CanWrap
\* Mutant: a parent that is suspended or expired is let pass.
RevokedParent(records, m) ==
  /\ Wrapper(m) \in Ids(records)
  /\ Find(records, Wrapper(m)).state \in {"Revoked", "Destroyed"}
InactiveParent(records, m) ==
  /\ Wrapper(m) \in Ids(records)
  /\ Find(records, Wrapper(m)).state \notin CanDecrypt
allow_external_master == {"Root", "Domain"}
InvalidWrappingForRole(m) == Wrapper(m) = NoKey /\ m.type \notin allow_external_master

\* detect_cycle, from every key.
Cycle(records) ==
  LET up[n \in Nat, k \in KeyId] ==
        IF n = 0 \/ k \notin Ids(records) THEN k
        ELSE IF Wrapper(Find(records, k)) = NoKey THEN k
        ELSE up[n - 1, Wrapper(Find(records, k))]
      Climbs(k) == k \in Ids(records) /\ Wrapper(Find(records, k)) # NoKey
  IN  \E k \in Ids(records) : Climbs(k) /\ Climbs(up[Cardinality(Ids(records)), k])

Violations(records) ==
  {r \in records : \/ OrphanedParent(records, r.meta)
                   \/ InvalidDirection(records, r.meta)
                   \/ InactiveParent(records, r.meta)
                   \/ InvalidWrappingForRole(r.meta)}

check_wrapping_graph(records) ==
  IF Cycle(records) THEN "Fail" ELSE If(Violations(records) # {}, "Warn")

check_no_orphaned_keys(records) ==
  If(\E r \in records : r.meta.parent \notin Ids(records) \cup {NoKey}, "Warn")

\* The clock is free: aged are the keys found old.
check_no_expired_keys(records, aged) ==
  If(\E r \in records : r.meta.state = "Active" /\ r.key \in aged, "Warn")
check_no_stale_pending_keys(records, aged) ==
  If(\E r \in records : r.meta.state = "Pending" /\ r.key \in aged, "Warn")

check_hierarchy_exists(records) ==
  If(\E t \in Level : ~\E r \in records : r.meta.type = t /\ r.meta.state = "Active", "Warn")

\* A key in use below a revoked or destroyed one, at most six levels up.
check_no_active_children_under_revoked(records) ==
  LET stopped[d \in 0 .. 6, k \in KeyId \cup {NoKey}] ==
        /\ d > 0
        /\ k \in Ids(records)
        /\ \/ Find(records, k).state \in {"Revoked", "Destroyed"}
           \/ stopped[d - 1, Find(records, k).parent]
  IN  If(\E r \in records : r.meta.state \in CanDecrypt /\ stopped[6, r.meta.parent], "Fail")

\* run_all_checks.  check_destroyed_keys_info always passes, and no key here is
\* in plaintext.
run_all_checks(records, e, aged) ==
  { check_master_key_present(e), check_master_key_valid(e),
    check_plaintext_mode_disabled(e), check_storage_permissions(e),
    check_wrapping_graph(records), check_no_orphaned_keys(records),
    check_no_expired_keys(records, aged), check_no_stale_pending_keys(records, aged),
    check_hierarchy_exists(records), check_no_orphaned_src(e),
    check_no_active_children_under_revoked(records), check_replay_store_backend(e) }

exit_code(report) == IF "Fail" \in report THEN 1 ELSE IF "Warn" \in report THEN 2 ELSE 0

Diagnose(aged) ==
  /\ step = "listed"
  /\ command.op = "doctor"
  /\ Exit(exit_code(run_all_checks(listed, command.env, aged)))
  /\ UNCHANGED <<vars, archive, lineage, disturbed, counts>>

-----------------------------------------------------------------------------
(* The server, and what may go wrong                                        *)

Disturbs ==
  /\ disturbed' = (disturbed \/ disk' # disk)
  /\ LineageAfterWrite
  /\ UNCHANGED <<progress, archive>>

ServerBegins(p) ==
  /\ served < MaxServed
  /\ served' = served + 1
  /\ \E r \in ServerRequests : Begin(p, r)
  /\ Disturbs
  /\ UNCHANGED <<commands, losses, faults>>

ServerWorks(p) ==
  /\ Continue(p)
  /\ Disturbs
  /\ UNCHANGED counts

\* A write fails, or the server dies.
ServerFaults(p) ==
  /\ pc[p] # "idle"
  /\ Fault(p) \/ (EndCascade(p) /\ UNCHANGED <<disk, history>>)
  /\ Disturbs
  /\ Fault1

\* The command is killed; the engine's call it was in dies with it.
CliCrash ==
  /\ step # "idle"
  /\ Exit(1)
  /\ EndCascade(Cli)
  /\ Fault1
  /\ UNCHANGED <<disk, history, archive, lineage, disturbed>>

\* The key directory is lost, or a new machine takes over; the server is down.
LoseStore ==
  /\ step = "idle"
  /\ \A p \in Proc : pc[p] = "idle"
  /\ losses < MaxLosses
  /\ losses' = losses + 1
  /\ file' = [k \in KeyId |-> "absent"]
  /\ lineage' = "lost"
  /\ disturbed' = TRUE
  /\ UNCHANGED <<store, history, local, walk, progress, archive, commands, served, faults>>

CliStep ==
  \/ \E k \in KeyId : ListFile(k) \/ ListBreaks(k)
  \/ ListEnds
  \/ TruncateArchive \/ WriteArchive
  \/ VerifyExits \/ BeginRestore
  \/ \E k \in KeyId : RestorePasses(k) \/ RestoreChecks(k)
  \/ RestorePuts \/ RestoreExits
  \/ PlanExits \/ Plan
  \/ MigrateGenerates \/ MigrateRefused \/ MigrateActivates \/ MigrateInactive
  \/ \E k \in KeyId : MigrateRewraps(k) \/ MigrateCannotRewrap(k)
  \/ MigrateExits
  \/ CliWorks \/ CliPut \/ CliRefused
  \/ \E aged \in {{}, KeyId} : Diagnose(aged)

MaintenanceNext ==
  \/ \E c \in Commands : BeginListing(c) \/ BeginReading(c)
  \/ \E r \in KeyRequests : KeyCommand(r)
  \/ CliStep
  \/ RestorePutFails \/ CliWriteFails \/ CliCrash
  \/ \E p \in Servers : ServerBegins(p)
  \/ \E p \in Servers : ServerWorks(p)
  \/ \E p \in Servers : ServerFaults(p)
  \/ LoseStore

MaintenanceSpec == MaintenanceInit /\ [][MaintenanceNext]_maintenanceVars

-----------------------------------------------------------------------------
(* Properties                                                               *)

\* The last command was op, it exited with 0, and no one wrote a key since it began.
Succeeded(op) == step = "idle" /\ command.op = op /\ exit = 0 /\ ~disturbed

\* What was lost comes back: once a restore of a backup taken while no one wrote
\* exits with 0, every ciphertext that decrypted when the backup was taken
\* decrypts again, also when the restore was interrupted, failed in part and
\* was run again.
RecoveredDecrypts ==
  lineage = "restored" => \A b \in archive.readable : Decryptable(b)

\* A migration that reports success is complete: whatever crashed and failed
\* before it, the named hierarchy is there and active, every DEK in use is
\* wrapped by a key, and another run would have nothing to do.  With a key file
\* that cannot be read this is not so: the plan is then made for an empty store.
MigrationSettles ==
  Succeeded("migrate") /\ command.flag = "none" /\ ~ListFails
    => Planned({Record(k) : k \in Stored})

\* No key version was moved under a key that is not its parent, and none comes
\* from an interrupted restore or one into a directory that had keys.
AtHome ==
  /\ lineage \in {"live", "restored"}
  /\ \A k \in Stored : \A i \in DOMAIN store[k].versions :
       store[k].versions[i].by \in {NoKey, store[k].parent}

\* A clean bill of health is right: when the doctor, which looks at current
\* versions only, exits with 0, every ciphertext of a key in use decrypts whose
\* keypair the record holds, whatever version it was sealed to.
DoctorSound ==
  Succeeded("doctor") /\ AtHome =>
    \A b \in blobs : /\ Readable(b.key)
                     /\ store[b.key].state \in CanDecrypt
                     /\ Retains(b)
                     => Decryptable(b)

\* "upgrade flat master-key-wrapped keys to a proper Root -> DomainKek -> Kek ->
\* Dek hierarchy" (migration.rs): the DEKs of a migrated store have the Domain
\* ancestor without which encrypt and decrypt refuse to work.
MigratedBelong ==
  Succeeded("migrate") /\ command.flag = "none" =>
    \A k \in Stored : Readable(k) /\ store[k].type = "DataEncrypting"
                        /\ store[k].state \in CanDecrypt => HasDomain(k)
=============================================================================
