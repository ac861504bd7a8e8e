------------------------------ MODULE CacheOpen ------------------------------
(***************************************************************************)
(* Opening the cache: `cache.Open` creates the schema of a fresh file, one *)
(* autocommitted statement after the other, and refuses a file stamped     *)
(* with another version.  Invocations of several versions of mbx open the  *)
(* same file at the same time, and each may be killed, or find SQLite      *)
(* busy, between any two statements.                                       *)
(***************************************************************************)
EXTENDS Naturals

CONSTANTS
    Openers,        \* concurrently running invocations that open the cache
    Versions,       \* the SchemaVersion of an installed binary
    Tables,         \* how many statements schemaDDL has
    NoVersion

ASSUME TablesType == Tables \in Nat \ {0}
ASSUME NoVersionFresh == NoVersion \notin Versions

VARIABLES
    disk,       \* cache.db: there or not, schema_meta, its version, and per
                \* statement of schemaDDL the version that has run it, if any
    opener,     \* what each invocation is about to do
    told        \* history: the versions that have refused and told the user to
                \* run `cache clear && cache sync`

openVars == <<disk, opener, told>>

Statements == 1..Tables
Stamps == Versions \union {NoVersion}

Disk == [there : BOOLEAN, meta : BOOLEAN, version : Stamps, made : [Statements -> Stamps]]

\* The verbs, by what they do with the cache: status and clear look first
\* whether there is a file.
Verbs == {"sync", "list", "status", "clear"}

\* "using" is an open cache; "refused" and "broken" are the two ways in which
\* Open fails, a schema mismatch and anything else.
OpenPCs == {"idle", "stat", "file", "meta", "version", "ddl", "stamp",
            "using", "refused", "broken", "nothing"}

Opener == [pc : OpenPCs, verb : Verbs, bin : Stamps, at : Nat,
           heeds : BOOLEAN]     \* history: a clear, run as a refusal told the user to

Resting == [pc |-> "idle", verb |-> "sync", bin |-> NoVersion, at |-> 0, heeds |-> FALSE]

Goto(p, pc) ==
    opener' = [opener EXCEPT ![p] = [opener[p] EXCEPT !.pc = pc]]

-----------------------------------------------------------------------------
OpenStart(p) ==
    /\ opener[p].pc = "idle"
    /\ \E v \in Versions, verb \in Verbs :
           opener' = [opener EXCEPT ![p] =
               [pc |-> IF verb \in {"status", "clear"} THEN "stat" ELSE "file",
                verb |-> verb, bin |-> v, at |-> 1, heeds |-> verb = "clear" /\ v \in told]]
    /\ UNCHANGED <<disk, told>>

\* runCacheStatus and runCacheClear: no file is an answer, not an error.
Stat(p) ==
    /\ opener[p].pc = "stat"
    /\ Goto(p, IF disk.there THEN "file" ELSE "nothing")
    /\ UNCHANGED <<disk, told>>

\* MkdirAll, sql.Open and the WAL pragma, which creates the file.
OpenFile(p) ==
    /\ opener[p].pc = "file"
    /\ disk' = [disk EXCEPT !.there = TRUE]
    /\ Goto(p, "meta")
    /\ UNCHANGED told

\* CREATE TABLE IF NOT EXISTS schema_meta.
CreateMeta(p) ==
    /\ opener[p].pc = "meta"
    /\ disk' = [disk EXCEPT !.meta = TRUE]
    /\ Goto(p, "version")
    /\ UNCHANGED told

\* SELECT of the version: none means a fresh file, another one a mismatch.
ReadVersion(p) ==
    LET v == disk.version
    IN  /\ opener[p].pc = "version"
        /\ Goto(p, IF v = NoVersion THEN "ddl"
                   ELSE IF v = opener[p].bin THEN "using" ELSE "refused")
        /\ told' = IF v \in {NoVersion, opener[p].bin} THEN told
                   ELSE told \union {opener[p].bin}
        /\ UNCHANGED disk

\* (mutant) CREATE TABLE IF NOT EXISTS: a statement another process has run is
\* passed over.
CreateTableIfNotExists(p) ==
    LET q == opener[p]
    IN  /\ q.pc = "ddl"
        /\ disk' = IF disk.made[q.at] # NoVersion THEN disk
                   ELSE [disk EXCEPT !.made[q.at] = q.bin]
        /\ opener' = [opener EXCEPT ![p] = [pc |-> IF q.at = Tables THEN "stamp" ELSE "ddl",
                          verb |-> q.verb, bin |-> q.bin, at |-> q.at + 1, heeds |-> q.heeds]]
        /\ UNCHANGED told

\* The next statement of schemaDDL, a plain CREATE: a second one is an error.
CreateTable(p) ==
    LET q == opener[p]
    IN  /\ q.pc = "ddl"
        /\ \/ /\ disk.made[q.at] # NoVersion
              /\ Goto(p, "broken")
              /\ UNCHANGED disk
           \/ /\ disk.made[q.at] = NoVersion
              /\ disk' = [disk EXCEPT !.made[q.at] = q.bin]
              /\ opener' = [opener EXCEPT ![p] =
                     [pc |-> IF q.at = Tables THEN "stamp" ELSE "ddl",
                      verb |-> q.verb, bin |-> q.bin, at |-> q.at + 1, heeds |-> q.heeds]]
        /\ UNCHANGED told

\* INSERT of the version, refused by the primary key if there is one.
StampVersion(p) ==
    LET q == opener[p]
    IN  /\ q.pc = "stamp"
        /\ \/ /\ disk.version # NoVersion
              /\ Goto(p, "broken")
              /\ UNCHANGED disk
           \/ /\ disk.version = NoVersion
              /\ disk' = [disk EXCEPT !.version = q.bin]
              /\ Goto(p, "using")
        /\ UNCHANGED told

\* The invocation ends, and the file stays as it is.
CloseStore(p) ==
    /\ opener[p].pc \in {"using", "refused", "broken", "nothing"}
    /\ opener' = [opener EXCEPT ![p] = Resting]
    /\ UNCHANGED <<disk, told>>

\* Killed, or SQLite is busy or out of space: what is done stays done.
OpenDies(p) ==
    /\ opener[p].pc # "idle"
    /\ opener' = [opener EXCEPT ![p] = Resting]
    /\ UNCHANGED <<disk, told>>

OpenInit ==
    /\ disk = [there |-> FALSE, meta |-> FALSE, version |-> NoVersion,
               made |-> [i \in Statements |-> NoVersion]]
    /\ opener = [p \in Openers |-> Resting]
    /\ told = {}

OpenNext ==
    \E p \in Openers :
        \/ OpenStart(p) \/ Stat(p) \/ OpenFile(p) \/ CreateMeta(p) \/ ReadVersion(p)
        \/ CreateTable(p) \/ StampVersion(p) \/ CloseStore(p) \/ OpenDies(p)

OpenSpec == OpenInit /\ [][OpenNext]_openVars

-----------------------------------------------------------------------------
(* Properties *)

\* Every variable stays in its range, and only a file that has the table of the
\* version has one.
OpenTypeOK ==
    /\ disk \in Disk
    /\ disk.version # NoVersion => disk.there /\ disk.meta
    /\ opener \in [Openers -> Opener]
    /\ told \subseteq Versions

\* A verb that has the cache open has a whole schema under it, every statement
\* of which was run by a binary of its own version, however many invocations
\* and versions created and died at the same time.
OpenIsWhole ==
    \A p \in Openers :
        opener[p].pc = "using" =>
            /\ disk.version = opener[p].bin
            /\ \A i \in Statements : disk.made[i] = opener[p].bin

\* A `cache clear` that is run because of a schema mismatch, as the refusal says, is
\* not refused for the mismatch itself.
ClearIsNotRefused ==
    \A p \in Openers : opener[p].heeds => opener[p].pc # "refused"
=============================================================================
