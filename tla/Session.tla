------------------------------- MODULE Session -------------------------------
(***************************************************************************)
(* The grammers session of tg2s3 (src/src/telegram/session.rs): a small    *)
(* SQLite database with a cache of the home data centre and of the options *)
(* (address and authorization key) of every data centre.  grammers reads   *)
(* the cache without waiting and writes through async methods that take    *)
(* write_lock, commit, and then bring the cache up to date.  Any of those  *)
(* calls may be dropped at an await, and the process may stop at any time. *)
(*                                                                         *)
(* A transaction takes effect at its commit.  Reads of the update state    *)
(* change nothing and are left out, as are addresses and the flags of      *)
(* channels, which are written whole.                                      *)
(***************************************************************************)
EXTENDS Naturals, Sequences

CONSTANTS Task,       \* callers of the session
          Dc,         \* data centres
          DefaultDc,  \* SessionData::default()
          AuthKey, NoKey,
          Peer, Hash, NoHash,
          Info,       \* what callers of cache_peer may know
          Pts,        \* positions in the update sequence
          NoTask

ASSUME DefaultAssumption == DefaultDc \in Dc
ASSUME PtsAssumption == 0 \in Pts
ASSUME NothingAssumption == NoKey \notin AuthKey /\ NoHash \notin Hash /\ NoTask \notin Task

VARIABLES
    disk,    \* the database
    cache,   \* Cache
    lock,    \* the task that holds write_lock
    task,    \* what each task is doing
    behind   \* history: cache fields whose writer was dropped after its commit

sessionVars == <<disk, cache, lock, task, behind>>

\* What is known of a user: the access hash, whether it is a bot, whether it is
\* this bot.
Flag == {"unknown", "no", "yes"}
PeerInfo == [auth : Hash \cup {NoHash}, bot : Flag, self : Flag]
ASSUME InfoAssumption == Info \subseteq PeerInfo

\* A row of peer_info: subtype is NULL or a set of flags.  A missing row and
\* one that says nothing come to the same.
PeerRow == [hash : Hash \cup {NoHash}, null : BOOLEAN, flags : SUBSET {"bot", "self"}]
NoRow == [hash |-> NoHash, null |-> TRUE, flags |-> {}]

UpdateRow == [pts : Pts, qts : Pts]
Operation ==
    [op : {"home"}, dc : Dc] \cup [op : {"option"}, dc : Dc, key : AuthKey \cup {NoKey}]
        \cup [op : {"peer"}, peer : Peer, info : Info]
        \cup [op : {"all"}, row : UpdateRow]
        \cup [op : {"primary", "secondary"}, pos : Pts]

NotBehind == [home |-> FALSE, options |-> {}]
NoOperation == [op |-> "none"]
IdleTask == [pc |-> "idle", does |-> NoOperation, read |-> NoRow]

\* The tables: dc_home holds at most one row, and so does update_state, which has
\* no key.
Database ==
    [home : {<<>>} \cup {<<dc>> : dc \in Dc}, option : [Dc -> AuthKey \cup {NoKey}],
     peer : [Peer -> PeerRow], update : {<<>>} \cup {<<row>> : row \in UpdateRow}]

TaskState ==
    [pc : {"idle", "locked", "loaded", "committed"},
     does : Operation \cup {NoOperation}, read : PeerRow]

SessionTypeOK ==
    /\ disk \in Database
    /\ cache \in [home : Dc, option : [Dc -> AuthKey \cup {NoKey}]]
    /\ lock \in Task \cup {NoTask}
    /\ task \in [Task -> TaskState]
    /\ behind \in [home : BOOLEAN, options : SUBSET Dc]

\* open(): what the database holds, and defaults for what it does not.
Opened(d) ==
    [home |-> IF d.home = <<>> THEN DefaultDc ELSE Head(d.home),
     option |-> d.option]

SessionInit ==
    /\ disk = [home |-> <<>>, option |-> [dc \in Dc |-> NoKey],
               peer |-> [p \in Peer |-> NoRow], update |-> <<>>]
    /\ cache = Opened(disk)
    /\ lock = NoTask
    /\ task = [t \in Task |-> IdleTask]
    /\ behind = NotBehind

----------------------------------------------------------------------------

\* Mutant: the lock is not waited for.
LockFree_ignored == TRUE

LockFree == lock = NoTask

\* A call that waits for write_lock changes nothing: it begins with the lock.
Lock(t, operation) ==
    /\ task[t].pc = "idle"
    /\ LockFree
    /\ lock' = t
    /\ task' = [task EXCEPT ![t] = [IdleTask EXCEPT !.pc = "locked", !.does = operation]]
    /\ UNCHANGED <<disk, cache, behind>>

\* Mutant: the row is inserted, whether there is one or not.
UpdatedRows_appended(does) ==
    Append(disk.update,
           CASE does.op = "all" -> does.row
             [] does.op = "primary" -> [pts |-> does.pos, qts |-> 0]
             [] does.op = "secondary" -> [pts |-> 0, qts |-> does.pos])

\* The row set_update_state leaves: All replaces it, Primary and Secondary
\* update it and insert it if there was none.
UpdatedRows(does) ==
    CASE does.op = "all" -> <<does.row>>
      [] does.op = "primary" ->
           <<[pts |-> does.pos,
              qts |-> IF disk.update = <<>> THEN 0 ELSE Head(disk.update).qts]>>
      [] does.op = "secondary" ->
           <<[pts |-> IF disk.update = <<>> THEN 0 ELSE Head(disk.update).pts,
              qts |-> does.pos]>>

\* set_home_dc_id, set_dc_option and set_update_state write the database.
Commit(t) ==
    LET does == task[t].does
    IN  /\ task[t].pc = "locked"
        /\ does.op # "peer"
        /\ disk' = CASE does.op = "home" -> [disk EXCEPT !.home = <<does.dc>>]
                     [] does.op = "option" -> [disk EXCEPT !.option[does.dc] = does.key]
                     [] OTHER -> [disk EXCEPT !.update = UpdatedRows(does)]
        /\ task' = [task EXCEPT ![t].pc = "committed"]
        /\ UNCHANGED <<cache, lock, behind>>

\* The cache follows, and the method returns.
Return(t) ==
    LET does == task[t].does
    IN  /\ task[t].pc = "committed"
        /\ cache' = CASE does.op = "home" -> [cache EXCEPT !.home = does.dc]
                      [] does.op = "option" -> [cache EXCEPT !.option[does.dc] = does.key]
                      [] OTHER -> cache
        /\ behind' = CASE does.op = "home" -> [behind EXCEPT !.home = FALSE]
                       [] does.op = "option" -> [behind EXCEPT !.options = @ \ {does.dc}]
                       [] OTHER -> behind
        /\ lock' = NoTask
        /\ task' = [task EXCEPT ![t] = IdleTask]
        /\ UNCHANGED disk

\* cache_peer reads what is known,
LoadPeer(t) ==
    /\ task[t].pc = "locked"
    /\ task[t].does.op = "peer"
    /\ task' = [task EXCEPT ![t].pc = "loaded", ![t].read = disk.peer[task[t].does.peer]]
    /\ UNCHANGED <<disk, cache, lock, behind>>

\* A NULL subtype says nothing; otherwise every flag is known.
FlagOf(row, flag) ==
    IF row.null THEN "unknown" ELSE IF flag \in row.flags THEN "yes" ELSE "no"

\* Mutant: what is known already is not looked at.
Extended_replaced(row, info) == info

\* load_peer and extend_info: what the caller knows goes before what is stored.
Extended(row, info) ==
    [auth |-> IF info.auth = NoHash THEN row.hash ELSE info.auth,
     bot |-> IF info.bot = "unknown" THEN FlagOf(row, "bot") ELSE info.bot,
     self |-> IF info.self = "unknown" THEN FlagOf(row, "self") ELSE info.self]

\* Two flags that are not set are stored as NULL.
RowOf(info) ==
    LET flags == {f \in {"bot", "self"} : info[f] = "yes"}
    IN  [hash |-> info.auth, null |-> flags = {}, flags |-> flags]

\* and writes it back with what is new.
StorePeer(t) ==
    LET does == task[t].does
    IN  /\ task[t].pc = "loaded"
        /\ disk' = [disk EXCEPT !.peer[does.peer] = RowOf(Extended(task[t].read, does.info))]
        /\ lock' = NoTask
        /\ task' = [task EXCEPT ![t] = IdleTask]
        /\ UNCHANGED <<cache, behind>>

\* A writer that has committed and not yet brought the cache up to date.
Catching(t, op) == task[t].pc = "committed" /\ task[t].does.op = op

\* The caller is dropped while it awaits a read or a commit, which may have
\* been done.
Drop(t) ==
    /\ task[t].pc # "idle"
    /\ lock' = IF lock = t THEN NoTask ELSE lock
    /\ behind' = CASE Catching(t, "home") -> [behind EXCEPT !.home = TRUE]
                   [] Catching(t, "option") ->
                        [behind EXCEPT !.options = @ \cup {task[t].does.dc}]
                   [] OTHER -> behind
    /\ task' = [task EXCEPT ![t] = IdleTask]
    /\ UNCHANGED <<disk, cache>>

\* The process ends, and starts again with open().
Restart ==
    /\ cache' = Opened(disk)
    /\ lock' = NoTask
    /\ task' = [t \in Task |-> IdleTask]
    /\ behind' = NotBehind
    /\ UNCHANGED disk

SessionStep(t) ==
    Commit(t) \/ Return(t) \/ LoadPeer(t) \/ StorePeer(t) \/ Drop(t)

SessionNext ==
    \/ \E t \in Task : (\E operation \in Operation : Lock(t, operation)) \/ SessionStep(t)
    \/ Restart

SessionSpec == SessionInit /\ [][SessionNext]_sessionVars

----------------------------------------------------------------------------

\* A restart changes nothing grammers has been told: the home data centre and
\* the keys in the cache are those the database would give, but for a value
\* just committed whose writer has yet to update the cache, or never did.
CacheSurvivesRestart ==
    /\ cache.home # Opened(disk).home
           => behind.home \/ \E t \in Task : Catching(t, "home")
    /\ \A dc \in Dc : cache.option[dc] # Opened(disk).option[dc]
           => \/ dc \in behind.options
              \/ \E t \in Task : Catching(t, "option") /\ task[t].does.dc = dc

\* Only the holder of write_lock is at work, what it read is still so, and what
\* it committed is in the database.
TaskOK(t) ==
    LET does == task[t].does
    IN  /\ task[t].pc # "idle" => lock = t /\ does \in Operation
        /\ task[t].pc = "loaded" => does.op = "peer" /\ task[t].read = disk.peer[does.peer]
        /\ Catching(t, "home") => disk.home = <<does.dc>>
        /\ Catching(t, "option") => disk.option[does.dc] = does.key

\* The inductive invariant.
SessionInv ==
    /\ SessionTypeOK
    /\ \A t \in Task : TaskOK(t)
    /\ \A p \in Peer : disk.peer[p].null => disk.peer[p].flags = {}
    /\ CacheSurvivesRestart

\* What is known of a peer is not lost: no two calls of cache_peer overwrite
\* each other, and partial information leaves the rest alone.  An access hash
\* stays; a flag that is set is unset only by a call that says so.
PeerKnowledgeKept ==
    [][\A p \in Peer :
          /\ disk.peer[p].hash # NoHash => disk'.peer[p].hash # NoHash
          /\ \A f \in disk.peer[p].flags \ disk'.peer[p].flags :
               \E t \in Task : task[t].pc = "loaded" /\ task[t].does.info[f] = "no"]_sessionVars

============================================================================
