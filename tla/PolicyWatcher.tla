--------------------------- MODULE PolicyWatcher ----------------------------
(***************************************************************************)
(* Where the policies come from: the file read at startup, the watcher     *)
(* that reloads it (crates/arbiter-policy/src/watcher.rs), and the admin   *)
(* endpoint that does the same (reload_policy).                            *)
(*                                                                         *)
(* An editor, the notify thread, the reload loop and the admin handler     *)
(* run concurrently; both reloads read the file in one step and publish    *)
(* what they parsed in another.  One admin reload is under way at a time.  *)
(*                                                                         *)
(* Abstracted: a text is empty or not, TOML or not, and the policies it    *)
(* holds.  A file that is truncated and then written is two edits.         *)
(***************************************************************************)
EXTENDS PolicyEval

CONSTANTS
    Texts,      \* the contents the file may have
    Channel,    \* capacity of the event channel, 16 in the code
    MaxEdits    \* bound: edits of the file

VARIABLES
    policy_file,    \* the text of the policy file, None if none is configured
    fs_event,       \* the kernel has a change the notify thread has not seen
    rx,             \* events waiting in the channel
    loop,           \* the reload loop: where it stands
    loop_text,      \* what it has read
    reload_text,    \* what the admin's reload has read, None: no reload
    policy_config,  \* the configuration last published
    edits,          \* edits so far
    overtaken       \* history: published by a reload that read an older text

watcherVars ==
    <<policy_file, fs_event, rx, loop, loop_text, reload_text, policy_config, edits, overtaken>>

ASSUME WatcherAssumption ==
    /\ \A t \in Texts : DOMAIN t = {"empty", "toml", "policies"}
    /\ Channel \in Nat \ {0}
    /\ MaxEdits \in Nat

(* from_toml gives a configuration. *)
Loadable(text) == text.toml /\ Compiles(text.policies)

(* reload_from_file publishes the text: it skips an empty one, most likely *)
(* a file that is just being written.                                      *)
ReloadedByWatcher(text) == ~text.empty /\ Loadable(text)

(* build_policy_config and PolicyWatcher::start.  A file that does not     *)
(* load stops the startup; without one there is nothing to watch.          *)
WatcherInit ==
    /\ \/ /\ policy_file \in {t \in Texts : Loadable(t)}
          /\ policy_config = policy_file.policies
       \/ policy_file = None /\ policy_config = None
    /\ fs_event = FALSE /\ rx = 0 /\ edits = 0 /\ overtaken = FALSE
    /\ loop = "recv" /\ loop_text = None /\ reload_text = None

edit(t) ==
    /\ policy_file \notin {None, t}
    /\ edits < MaxEdits
    /\ policy_file' = t
    /\ fs_event' = TRUE
    /\ edits' = edits + 1
    /\ UNCHANGED <<rx, loop, loop_text, reload_text, policy_config, overtaken>>

(* try_send: an event that finds the channel full is dropped. *)
Queued(n) == IF n < Channel THEN n + 1 ELSE n

notify ==
    /\ fs_event
    /\ fs_event' = FALSE
    /\ rx' = Queued(rx)
    /\ UNCHANGED <<policy_file, loop, loop_text, reload_text, policy_config, edits, overtaken>>

(* The directory is watched: a change of another file is an event too.     *)
notify_other ==
    /\ policy_file # None
    /\ rx' = Queued(rx)
    /\ UNCHANGED <<policy_file, fs_event, loop, loop_text, reload_text, policy_config, edits, overtaken>>

(* reload_loop waits for an event and sleeps for the debounce time, ...    *)
recv ==
    /\ loop = "recv" /\ rx > 0
    /\ rx' = rx - 1
    /\ loop' = "sleep"
    /\ UNCHANGED <<policy_file, fs_event, loop_text, reload_text, policy_config, edits, overtaken>>

(* Faulty variant: the file is read before the sleep is over and the       *)
(* events that came meanwhile are thrown away.                             *)
drain_after_read ==
    /\ loop = "sleep"
    /\ \/ loop_text = None /\ loop_text' = policy_file /\ UNCHANGED <<loop, rx>>
       \/ /\ loop_text # None /\ rx' = 0
          /\ loop' = IF ReloadedByWatcher(loop_text) THEN "publish" ELSE "recv"
          /\ loop_text' = IF ReloadedByWatcher(loop_text) THEN loop_text ELSE None
    /\ UNCHANGED <<policy_file, fs_event, reload_text, policy_config, edits, overtaken>>

(* ... drains the channel, ... *)
drain ==
    /\ loop = "sleep"
    /\ rx' = 0
    /\ loop' = "read"
    /\ UNCHANGED <<policy_file, fs_event, loop_text, reload_text, policy_config, edits, overtaken>>

(* ... reads the file, keeping what is published if that does not load, ... *)
read_file ==
    /\ loop = "read"
    /\ IF ReloadedByWatcher(policy_file)
       THEN loop' = "publish" /\ loop_text' = policy_file
       ELSE loop' = "recv" /\ UNCHANGED loop_text
    /\ UNCHANGED <<policy_file, fs_event, rx, reload_text, policy_config, edits, overtaken>>

(* ... and publishes it. *)
send_replace ==
    /\ loop = "publish"
    /\ policy_config' = loop_text.policies
    /\ overtaken' = FALSE
    /\ loop' = "recv" /\ loop_text' = None
    /\ UNCHANGED <<policy_file, fs_event, rx, reload_text, edits>>

(* reload_policy, POST /policy/reload: reads the file if there is one; a   *)
(* text that does not load is an error, ...                                *)
reload_read ==
    /\ policy_file # None /\ reload_text = None
    /\ Loadable(policy_file)
    /\ reload_text' = policy_file
    /\ UNCHANGED <<policy_file, fs_event, rx, loop, loop_text, policy_config, edits, overtaken>>

(* ... anything else, an empty one too, is published. *)
reload_publish ==
    /\ reload_text # None
    /\ policy_config' = reload_text.policies
    /\ overtaken' = (reload_text # policy_file)
    /\ reload_text' = None
    /\ UNCHANGED <<policy_file, fs_event, rx, loop, loop_text, edits>>

WatcherNext ==
    \/ \E t \in Texts : edit(t)
    \/ notify \/ notify_other \/ recv \/ drain \/ read_file \/ send_replace
    \/ reload_read \/ reload_publish

(* The notify thread and the reload loop are scheduled, and the sleep      *)
(* ends.                                                                   *)
WatcherFairness == WF_watcherVars(notify) /\ WF_watcherVars(recv) /\ WF_watcherVars(drain)
                   /\ WF_watcherVars(read_file) /\ WF_watcherVars(send_replace)

----------------------------------------------------------------------------
WatcherTypeOK ==
    /\ policy_file \in Texts \cup {None}
    /\ fs_event \in BOOLEAN
    /\ rx \in 0..Channel
    /\ loop \in {"recv", "sleep", "read", "publish"}
    /\ loop_text \in Texts \cup {None}
    /\ reload_text \in Texts \cup {None}
    /\ policy_config \in {t.policies : t \in Texts} \cup {None}
    /\ edits \in 0..MaxEdits
    /\ overtaken \in BOOLEAN

(* Hot reload, watcher.rs 75-138: once the file is left alone, its last    *)
(* text is what requests are judged by, although events are dropped when   *)
(* the channel is full, coalesced by the debounce, and come while a        *)
(* reload is under way.  Excepted: an admin reload that read the file      *)
(* before the last edit may publish after the watcher and stays.           *)
LastEditLoaded ==
    <>[](policy_file # None /\ ReloadedByWatcher(policy_file)
            => overtaken \/ policy_config = policy_file.policies)

=============================================================================
