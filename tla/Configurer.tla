----------------------------- MODULE Configurer -----------------------------
(***************************************************************************)
(* util/config/configurer.go: WriteConfig saves the configuration file as    *)
(* .bak, writes the new text to .tmp and renames .tmp to the file.  A rate   *)
(* limiter's goroutine and SetMaster in the signal goroutine can both be in  *)
(* it, for the same file and with the same .tmp and .bak.                    *)
(*                                                                         *)
(* ioutil.WriteFile opens (and creates or truncates) the file, writes from   *)
(* the beginning, closes: what another writer has put there since stays      *)
(* behind a shorter text.  An open .tmp that another writer renames goes on  *)
(* being written under its new name, so a writer keeps which file it has     *)
(* open.  A text is a sequence of blocks.                                    *)
(***************************************************************************)
EXTENDS Naturals, Sequences

CONSTANTS Writers,   \* the goroutines that write this file
          Texts,     \* what is rendered
          NoFile     \* no such file

Blocks == UNION {{t[i] : i \in 1..Len(t)} : t \in Texts}

ASSUME ConfigurerAssumption ==
    /\ Texts \subseteq Seq(Blocks)
    /\ \A t \in Texts : t # <<>>
    /\ NoFile \notin Seq(Blocks)

VARIABLES
    cfg, bak, tmp,  \* the three files
    at,             \* writer -> the next step of WriteConfig
    data,           \* writer -> cfgBytes
    saved,          \* writer -> cfgContent
    fd,             \* writer -> what its open .tmp has become: "tmp", "cfg", "gone", or "none"
    alone,          \* history: writers that share .tmp with nobody since they opened it
    mixed           \* history: the last rename was of a shared .tmp

files == <<cfg, bak, tmp>>
cfgVars == <<files, at, data, saved, fd, alone, mixed>>

NewConfigurer ==
    /\ cfg \in Texts
    /\ bak = NoFile /\ tmp = NoFile
    /\ at = [w \in Writers |-> "idle"]
    /\ data = [w \in Writers |-> <<>>]
    /\ saved = [w \in Writers |-> <<>>]
    /\ fd = [w \in Writers |-> "none"]
    /\ alone = {}
    /\ mixed = FALSE

Goto(w, from, to) == at[w] = from /\ at' = [at EXCEPT ![w] = to]

\* A write at offset 0 of a file that holds old.
Overlay(new, old) == new \o SubSeq(old, Len(new) + 1, Len(old))

WriteConfig(w, t) ==
    /\ Goto(w, "idle", "backup")
    /\ data' = [data EXCEPT ![w] = t]
    /\ UNCHANGED <<files, saved, fd, alone, mixed>>

(***************************************************************************)
(* createConfigBackup.  Its errors end the process (glog.Fatalf): see Crash. *)
(***************************************************************************)
ReadConfig(w) ==
    /\ Goto(w, "backup", "open .bak")
    /\ saved' = [saved EXCEPT ![w] = cfg]
    /\ UNCHANGED <<files, data, fd, alone, mixed>>

OpenBackup(w) ==
    /\ Goto(w, "open .bak", "write .bak")
    /\ bak' = <<>>
    /\ UNCHANGED <<cfg, tmp, data, saved, fd, alone, mixed>>

WriteBackup(w) ==
    /\ Goto(w, "write .bak", "open .tmp")
    /\ bak' = Overlay(saved[w], bak)
    /\ saved' = [saved EXCEPT ![w] = <<>>]
    /\ UNCHANGED <<cfg, tmp, data, fd, alone, mixed>>

(***************************************************************************)
(* The new text.                                                             *)
(***************************************************************************)
\* Writers between the open of .tmp and its rename.
Using == {w \in Writers : at[w] \in {"write .tmp", "rename"}}

OpenTmp(w) ==
    /\ Goto(w, "open .tmp", "write .tmp")
    /\ tmp' = <<>>
    /\ fd' = [fd EXCEPT ![w] = "tmp"]
    /\ alone' = IF Using = {} THEN {w} ELSE {}
    /\ UNCHANGED <<cfg, bak, data, saved, mixed>>

\* What w writes, to the file its descriptor stands for by now.
Put(w, text) ==
    /\ tmp' = IF fd[w] = "tmp" THEN Overlay(text, tmp) ELSE tmp
    /\ cfg' = IF fd[w] = "cfg" THEN Overlay(text, cfg) ELSE cfg
    /\ fd' = [fd EXCEPT ![w] = "none"]

WriteTmp(w) ==
    /\ Goto(w, "write .tmp", "rename")
    /\ Put(w, data[w])
    /\ UNCHANGED <<bak, data, saved, alone, mixed>>

Leave(w) == data' = [data EXCEPT ![w] = <<>>] /\ alone' = alone \ {w}

\* The open fails and leaves .tmp as it is.
OpenTmpFails(w) ==
    /\ Goto(w, "open .tmp", "idle")
    /\ Leave(w)
    /\ UNCHANGED <<files, saved, fd, mixed>>

\* The disk is full: some blocks may have been written.
WriteTmpFails(w, blocks) ==
    /\ Goto(w, "write .tmp", "idle")
    /\ blocks < Len(data[w])
    /\ Put(w, SubSeq(data[w], 1, blocks))
    /\ Leave(w)
    /\ UNCHANGED <<bak, saved, mixed>>

MutantRenameCopies(w) ==
    /\ Goto(w, "rename", "idle")
    /\ tmp # NoFile
    /\ cfg' = Overlay(tmp, cfg)
    /\ tmp' = NoFile
    /\ fd' = [v \in Writers |-> IF fd[v] = "tmp" THEN "gone" ELSE fd[v]]
    /\ mixed' = (w \notin alone)
    /\ Leave(w)
    /\ UNCHANGED <<bak, saved>>

\* Descriptors of .tmp now stand for the file, those of the old file for none.
Rename(w) ==
    /\ Goto(w, "rename", "idle")
    /\ tmp # NoFile
    /\ cfg' = tmp
    /\ tmp' = NoFile
    /\ fd' = [v \in Writers |-> IF fd[v] = "tmp" THEN "cfg" ELSE IF fd[v] = "cfg" THEN "gone" ELSE fd[v]]
    /\ mixed' = (w \notin alone)
    /\ Leave(w)
    /\ UNCHANGED <<bak, saved>>

MutantFailureForgetsToLeave(w) ==
    /\ Goto(w, "rename", "idle")
    /\ UNCHANGED <<files, data, alone, saved, fd, mixed>>

\* .tmp is gone (another writer has renamed it), or the rename fails.
RenameFails(w) ==
    /\ Goto(w, "rename", "idle")
    /\ Leave(w)
    /\ UNCHANGED <<files, saved, fd, mixed>>

\* The process ends, by a Fatalf or from outside, and is started again.
Crash ==
    /\ at' = [w \in Writers |-> "idle"]
    /\ data' = [w \in Writers |-> <<>>]
    /\ saved' = [w \in Writers |-> <<>>]
    /\ fd' = [w \in Writers |-> "none"]
    /\ alone' = {}
    /\ UNCHANGED <<files, mixed>>

ConfigurerNext ==
    \/ \E w \in Writers :
          \/ \E t \in Texts : WriteConfig(w, t)
          \/ ReadConfig(w) \/ OpenBackup(w) \/ WriteBackup(w)
          \/ OpenTmp(w) \/ OpenTmpFails(w) \/ WriteTmp(w) \/ Rename(w) \/ RenameFails(w)
          \/ \E blocks \in 0..Len(data[w]) : WriteTmpFails(w, blocks)
    \/ Crash

ConfigurerSpec == NewConfigurer /\ [][ConfigurerNext]_cfgVars
-----------------------------------------------------------------------------
Steps == {"idle", "backup", "open .bak", "write .bak", "open .tmp", "write .tmp", "rename"}

ConfigurerTypeOK ==
    /\ cfg \in Seq(Blocks)
    /\ bak = NoFile \/ bak \in Seq(Blocks)
    /\ tmp = NoFile \/ tmp \in Seq(Blocks)
    /\ at \in [Writers -> Steps]
    /\ data \in [Writers -> Texts \cup {<<>>}]
    /\ saved \in [Writers -> Seq(Blocks)]
    /\ fd \in [Writers -> {"none", "tmp", "cfg", "gone"}]
    /\ \A w \in Writers : /\ at[w] # "idle" <=> data[w] # <<>>
                          /\ at[w] = "write .tmp" <=> fd[w] # "none"
    /\ alone \subseteq Using
    /\ mixed \in BOOLEAN

\* Whatever fails and wherever the process dies, a file that is empty, cut
\* short or made of two renderings was put in place by a write that shared
\* .tmp with another, and the next write that has .tmp to itself repairs it,
\* whatever descriptors and leftovers the others have.  A single writer
\* therefore replaces the file in one step, as Failover has it.
LoneWriteIsWhole == ~mixed => cfg \in Texts

\* "Auto configure Keepalived&HAProxy configuration files based your template"
\* (README): the configuration file is always one rendering.
FileIsOneRendering == cfg \in Texts
=============================================================================
