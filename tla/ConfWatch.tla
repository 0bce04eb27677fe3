------------------------------ MODULE ConfWatch ------------------------------
(***************************************************************************)
(* The reload of the configuration: app_launcher::EventWrapper watches the *)
(* two configuration files with inotify, AppLauncher::OnReload has the log *)
(* engine and ConfCenter read them again and AppFrame::NotifyReload loads  *)
(* ConfMgr and tells the threads.  The files are edited meanwhile: written *)
(* in place, replaced by a rename, or moved away, written anew and the old *)
(* one removed, the way editors keep a backup.                             *)
(* Edits are at least a second apart: FileStat would not tell two files of *)
(* one size and one second apart.                                          *)
(***************************************************************************)
EXTENDS ConfMgr, Integers

CONSTANTS
    Docs,      \* contents of the application's file, by their sizes
    MaxEdits,
    Patient,   \* edits begin when the process is up; a file is moved away
               \* only after the events before it were handled
    Probes     \* members the threads read

ASSUME ConfWatchAssumption ==
    /\ DOMAIN Docs \subseteq Nat \ {0}
    /\ MaxEdits \in Nat
    /\ Patient \in BOOLEAN
    /\ Probes \subseteq DOMAIN Members

Files == {"app", "log"}
Gone == [ino |-> 0, size |-> 0, mtime |-> 0]   \* also what a failed stat leaves

VARIABLES
    disk,      \* path -> inode, size of the content (0: not yet written) and mtime
    backup,    \* path -> the inode that was moved away
    edits,     \* history: the number of edits, their clock
    watches,   \* the kernel's watches, wd -> inode
    queue,     \* the kernel's queue of events
    last_wd,
    pc,        \* the main thread
    buf,       \* events read and not yet looked at
    need_check, need_rewatch,
    wd,        \* inotify_wd_app_conf_, inotify_wd_log_conf_
    filestat,  \* app_conf_filestat_, log_conf_filestat_
    changed,   \* app_conf_changed, log_conf_changed
    log_conf,  \* the size of the log configuration that is in use
    loads,     \* history: documents loaded into ConfMgr
    due,       \* a thread has been told to reload: the load it was told of
    seen       \* history: what the thread read last

fileVars == <<disk, backup, edits>>
kernelVars == <<watches, queue, last_wd>>
handlerVars == <<pc, buf, need_check, need_rewatch, wd, filestat, changed>>
threadVars == <<due, seen>>
vars == <<fileVars, kernelVars, handlerVars, log_conf, loads, threadVars, centerVars, mgrVars>>

Init ==
    /\ CenterInit /\ MgrInit
    /\ disk \in [Files -> {[ino |-> 1, size |-> 1, mtime |-> 0]}]
    /\ backup = [f \in Files |-> 0] /\ edits = 0
    /\ watches = <<>> /\ queue = <<>> /\ last_wd = 0
    /\ pc = "load" /\ buf = <<>> /\ need_check = FALSE /\ need_rewatch = FALSE
    /\ wd = [f \in Files |-> -1]
    /\ filestat = [f \in Files |-> [size |-> 0, mtime |-> 0]]
    /\ changed = {} /\ log_conf = 0 /\ loads = <<>>
    /\ due = 0 /\ seen = <<>>

-----------------------------------------------------------------------------
\* The files and the kernel.  An inode is told apart by its file and number.
Watchers(f, ino) == {w \in DOMAIN watches : watches[w] = <<f, ino>>}

Event(w, mask) == [wd |-> w, mask |-> mask]

\* Events for whoever watches the inode.
Emit(f, ino, masks) ==
    LET ws == Watchers(f, ino)
    IN  queue' = queue \o (IF ws = {} THEN <<>> ELSE
                    LET w == CHOOSE w \in ws : TRUE
                    IN [i \in DOMAIN masks |-> Event(w, masks[i])])

MayEdit(f) ==
    /\ edits < MaxEdits /\ backup[f] = 0 /\ disk[f].size > 0
    /\ Patient => last_wd # 0
    /\ edits' = edits + 1

ByHand == UNCHANGED <<handlerVars, log_conf, loads, threadVars, centerVars, mgrVars>>

\* A file is opened for writing and emptied; then written and closed.
OpenWrite(f) ==
    /\ MayEdit(f)
    /\ disk' = [disk EXCEPT ![f].size = 0, ![f].mtime = edits + 1]
    /\ UNCHANGED <<backup, kernelVars>> /\ ByHand

CloseWrite(f, size) ==
    /\ disk[f].ino # 0 /\ disk[f].size = 0
    /\ disk' = [disk EXCEPT ![f].size = size]
    /\ Emit(f, disk[f].ino, <<"CLOSE_WRITE">>)
    /\ UNCHANGED <<backup, edits, watches, last_wd>> /\ ByHand

\* The last link of an inode goes: the kernel drops its watch.
Unlink(f, ino) ==
    /\ Emit(f, ino, <<"DELETE_SELF", "IGNORED">>)
    /\ watches' = Restrict(watches, DOMAIN watches \ Watchers(f, ino))
    /\ UNCHANGED last_wd

RenameOver(f, size) ==
    /\ MayEdit(f)
    /\ disk' = [disk EXCEPT ![f] = [ino |-> edits + 2, size |-> size, mtime |-> edits + 1]]
    /\ Unlink(f, disk[f].ino)
    /\ UNCHANGED backup /\ ByHand

MoveAway(f) ==
    /\ MayEdit(f)
    /\ Patient => pc = "idle" /\ queue = <<>>
    /\ backup' = [backup EXCEPT ![f] = disk[f].ino]
    /\ disk' = [disk EXCEPT ![f] = Gone]
    /\ Emit(f, disk[f].ino, <<"MOVE_SELF">>)
    /\ UNCHANGED <<watches, last_wd>> /\ ByHand

CreateAnew(f) ==
    /\ backup[f] # 0 /\ disk[f] = Gone
    /\ disk' = [disk EXCEPT ![f] = [ino |-> edits + 1, size |-> 0, mtime |-> edits]]
    /\ UNCHANGED <<backup, edits, kernelVars>> /\ ByHand

RemoveBackup(f) ==
    /\ backup[f] # 0 /\ disk[f].size > 0
    /\ backup' = [backup EXCEPT ![f] = 0]
    /\ Unlink(f, backup[f])
    /\ UNCHANGED <<disk, edits>> /\ ByHand

\* inotify_add_watch on the path.
AddWatch(f) ==
    IF disk[f].ino = 0
    THEN wd' = [wd EXCEPT ![f] = -1] /\ UNCHANGED <<watches, last_wd>>
    ELSE /\ wd' = [wd EXCEPT ![f] = last_wd + 1]
         /\ last_wd' = last_wd + 1
         /\ watches' = watches @@ ((last_wd + 1) :> <<f, disk[f].ino>>)

-----------------------------------------------------------------------------
\* Start: the files are read first, then watched.
Parsed(size) ==
    IF size > 0 THEN {Docs[size]}
    ELSE {Restrict(Docs[n], S) : n \in DOMAIN Docs, S \in {{}, {"tcp_inactive_conn_life"}}}

\* ConfCenter::Reload; a file that is gone leaves the document as it was.
ReloadCenter ==
    \/ disk["app"].ino = 0 /\ UNCHANGED centerVars
    \/ disk["app"].ino # 0 /\ \E d \in Parsed(disk["app"].size) : Load(d)

\* LogEngine::Reload: without the file, no appender is left.
ReloadLog == log_conf' = disk["log"].size

Initialize ==
    /\ pc = "load" /\ section = 1 /\ ~wlock
    /\ disk["app"].size > 0 /\ disk["log"].size > 0   \* otherwise the process does not start
    /\ ReloadLog /\ ReloadCenter
    /\ pc' = "begin"
    /\ UNCHANGED <<fileVars, kernelVars, buf, need_check, need_rewatch, wd, filestat,
                   changed, loads, threadVars, mgrVars>>

\* GetFileStat.
Stat(f) == [size |-> disk[f].size, mtime |-> disk[f].mtime]

WatchConfFiles ==
    /\ pc = "watch"
    /\ \A f \in Files : disk[f].ino # 0
    /\ wd' = [f \in Files |-> IF f = "app" THEN 1 ELSE 2]
    /\ watches' = <<<<"app", disk["app"].ino>>, <<"log", disk["log"].ino>>>>
    /\ last_wd' = 2
    /\ filestat' = [f \in Files |-> Stat(f)]
    /\ pc' = "idle"
    /\ UNCHANGED <<fileVars, queue, buf, need_check, need_rewatch, changed, log_conf,
                   loads, threadVars, centerVars, mgrVars>>

-----------------------------------------------------------------------------
\* OnInotifyReadEvent.  The flags start anew with every read, not with every event.
ReadEvents ==
    /\ pc \in {"idle", "events"} /\ buf = <<>> /\ queue # <<>>
    /\ buf' = queue /\ queue' = <<>>
    /\ need_check' = FALSE /\ need_rewatch' = FALSE
    /\ changed' = IF pc = "idle" THEN {} ELSE changed
    /\ pc' = "events"
    /\ UNCHANGED <<fileVars, watches, last_wd, wd, filestat, log_conf, loads, threadVars,
                   centerVars, mgrVars>>

Of(event) == {f \in Files : wd[f] = event.wd}

\* The file's stat is compared, also for an event that only follows one that
\* asked for it; then the watch is set again when the flag says so.
CheckFilestat ==
    LET event == Head(buf)
        rewatch == need_rewatch \/ event.mask = "DELETE_SELF"
        check == need_check \/ rewatch \/ event.mask = "CLOSE_WRITE"
        differs == {f \in Of(event) : check /\ Stat(f) # filestat[f]}
    IN  /\ pc = "events" /\ buf # <<>>
        /\ need_check' = check /\ need_rewatch' = rewatch
        /\ changed' = changed \cup differs
        /\ filestat' = [f \in Files |-> IF f \in differs THEN Stat(f) ELSE filestat[f]]
        /\ \/ rewatch /\ Of(event) # {} /\ pc' = "rewatch" /\ UNCHANGED buf
           \/ ~(rewatch /\ Of(event) # {}) /\ buf' = Tail(buf) /\ UNCHANGED pc
        /\ UNCHANGED <<fileVars, kernelVars, wd, log_conf, loads, threadVars, centerVars, mgrVars>>

\* inotify_rm_watch: fails for a watch the kernel dropped.
RemoveWatch ==
    /\ pc = "rewatch"
    /\ LET w == Head(buf).wd
       IN  /\ watches' = Restrict(watches, DOMAIN watches \ {w})
           /\ queue' = IF w \in DOMAIN watches THEN Append(queue, Event(w, "IGNORED")) ELSE queue
    /\ pc' = "add"
    /\ changed' = changed \cup Of(Head(buf))
    /\ UNCHANGED <<fileVars, last_wd, buf, need_check, need_rewatch, wd, filestat, log_conf,
                   loads, threadVars, centerVars, mgrVars>>

RewatchNothing ==
    /\ pc = "add"
    /\ buf' = Tail(buf) /\ pc' = "events"
    /\ UNCHANGED <<wd, fileVars, kernelVars, need_check, need_rewatch, filestat, changed, log_conf,
                   loads, threadVars, centerVars, mgrVars>>

Rewatch ==
    /\ pc = "add"
    /\ \E f \in Of(Head(buf)) : AddWatch(f)
    /\ buf' = Tail(buf) /\ pc' = "events"
    /\ UNCHANGED <<fileVars, queue, need_check, need_rewatch, filestat, changed, log_conf,
                   loads, threadVars, centerVars, mgrVars>>

\* Nothing more to read: AppLauncher::OnReload, ServiceMgr::Reload.
OnReload ==
    /\ pc = "events" /\ buf = <<>> /\ queue = <<>>
    /\ IF "log" \in changed THEN ReloadLog ELSE UNCHANGED log_conf
    /\ pc' = IF "app" \in changed THEN "reload" ELSE "idle"
    /\ UNCHANGED <<fileVars, kernelVars, buf, need_check, need_rewatch, wd, filestat, changed,
                   loads, threadVars, centerVars, mgrVars>>

ReloadApp ==
    /\ pc = "reload" /\ ReloadCenter
    /\ pc' = "begin"
    /\ UNCHANGED <<fileVars, kernelVars, buf, need_check, need_rewatch, wd, filestat, changed,
                   log_conf, loads, threadVars, mgrVars>>

\* AppFrame::NotifyReload: ConfMgr first, then the threads.
ReloadMgr ==
    /\ \/ pc = "begin" /\ BeginLoad /\ pc' = "sections" /\ UNCHANGED loads
       \/ /\ pc = "sections" /\ section <= Len(Sections) /\ LoadSection
          /\ pc' = IF section = Len(Sections) THEN "notify" ELSE pc
          /\ loads' = IF section = Len(Sections) THEN Append(loads, doc) ELSE loads
    /\ UNCHANGED <<fileVars, kernelVars, buf, need_check, need_rewatch, wd, filestat, changed,
                   log_conf, threadVars>>

NotifyReload ==
    /\ pc = "notify"
    /\ \/ last_wd = 0 /\ pc' = "watch" /\ UNCHANGED due      \* at the start
       \/ last_wd # 0 /\ pc' = "idle" /\ due' = Len(loads)
    /\ UNCHANGED <<fileVars, kernelVars, buf, need_check, need_rewatch, wd, filestat, changed,
                   log_conf, loads, seen, centerVars, mgrVars>>

-----------------------------------------------------------------------------
\* A thread calls a getter, in its OnReload or at any other time.
Getter(x) ==
    /\ Readable /\ last_wd # 0
    /\ seen' = <<[member |-> x, value |-> conf[x], told |-> IF due > 0 THEN due ELSE 1]>>
    /\ due' = 0
    /\ UNCHANGED <<fileVars, kernelVars, handlerVars, log_conf, loads, centerVars, mgrVars>>

\* A logic reads a value of its own from ConfCenter.
LogicReads(type) ==
    /\ last_wd # 0
    /\ LogicGetConf("logic/value", type)
    /\ UNCHANGED <<fileVars, kernelVars, handlerVars, log_conf, loads, threadVars, mgrVars>>

Edit ==
    \E f \in Files :
        \/ OpenWrite(f) \/ MoveAway(f)
        \/ \E size \in DOMAIN Docs : RenameOver(f, size)

FinishEdit ==
    \E f \in Files :
        \/ CreateAnew(f) \/ RemoveBackup(f)
        \/ \E size \in DOMAIN Docs : CloseWrite(f, size)

MainStep ==
    \/ Initialize \/ WatchConfFiles
    \/ ReadEvents \/ CheckFilestat \/ RemoveWatch \/ Rewatch
    \/ OnReload \/ ReloadApp \/ ReloadMgr \/ NotifyReload

ThreadStep == (\E x \in Probes : Getter(x)) \/ (\E type \in Types : LogicReads(type))

Next == Edit \/ FinishEdit \/ MainStep \/ ThreadStep

\* The event loop runs on, and who began an edit ends it.
Spec == Init /\ [][Next]_vars /\ WF_vars(MainStep) /\ WF_vars(FinishEdit)

-----------------------------------------------------------------------------
\* conf as a load of document d gives it.
ConfOf(d) ==
    [x \in DOMAIN Members |->
        LET m == Members[x]
            entries == GetEntries(d, x, TypeOf(m))
            values == IF entries = <<>> THEN <<m.value>> ELSE entries
        IN  CASE m.kind = "flag" -> values[1] # 0
              [] m.kind \in {"num", "str"} -> values[1]
              [] OTHER -> NonEmpty(values)]

\* What the maps of ConfCenter hold is what its document says: a reload must
\* not leave values of the file before (Load, GetConf).
CacheMatchesDoc ==
    \A type \in Types : \A x \in DOMAIN cached[type] :
        cached[type][x] = GetEntries(doc, x, type) /\ cached[type][x] # <<>>

\* A getter returns a value of a configuration that was loaded completely, and
\* a thread told to reload sees the one it was told of or a later one, although
\* Load empties all members first (ConfMgr::Load, NotifyReload).
GettersSeeLoaded ==
    \A i \in DOMAIN seen :
        \E n \in seen[i].told .. Len(loads) :
            seen[i].value = ConfOf(loads[n])[seen[i].member]

\* Once the files are left alone, the process runs with what they say, however
\* the edits fell between the reading of events, the comparison of file stats,
\* the renewal of watches and the reloads (OnInotifyReadEvent, OnReload).
ConfFollowsFile ==
    <>[](/\ disk["log"].size > 0 /\ log_conf = disk["log"].size
         /\ disk["app"].size > 0 /\ doc = Docs[disk["app"].size]
         /\ conf = ConfOf(doc))
=============================================================================
