---------------------------- MODULE ConfigFiles ----------------------------
(***************************************************************************)
(* The VF configuration files: dropped into the config directory by the    *)
(* virtualisation manager, moved to the live directory when their VF has   *)
(* been added, removed when it is deleted, and all that VFd knows after a  *)
(* restart (vfd_add_all_vfs).  VFd may die between any two steps; the      *)
(* copy to the live directory truncates, writes and then unlinks.          *)
(*                                                                         *)
(* Of a file only the VF and the name in it matter here.  Files with the   *)
(* suffixes .error and - are never read again and are not modelled.        *)
(* Whether a file passes the vetting, at an add and again at a restart, is *)
(* left open: Admission says when a restart takes what was taken before.   *)
(* What happens in memory and in the NIC is VfdConfig's subject: one step. *)
(***************************************************************************)
EXTENDS Integers, FiniteSets

CONSTANTS
  VfIds,       \* VFs
  Owners,      \* names that a file can give its VF (config_name)
  Names,       \* base names of files
  VfsOf,       \* for each base name the VFs its files may describe
  NoFile,      \* there is no such file
  Broken,      \* a file that read_config cannot read
  NoOwner,     \* the VF is not managed
  Paths,       \* <<operation, directory>> that requests combine
  Outcomes,    \* subset of {"ok", "fails"}: how file operations may end
  MaxDrops,    \* bound on the files dropped
  MaxCrashes   \* bound on the crashes

Contents == [vf : VfIds, owner : Owners]
Files    == Contents \cup {NoFile, Broken}
Dirs     == {"conf", "live"}

ASSUME FileNames ==
  /\ VfsOf \in [Names -> SUBSET VfIds]
  /\ NoFile \notin Contents /\ Broken \notin Contents \cup {NoFile}
  /\ NoOwner \notin Owners
  /\ Paths \subseteq {"add", "del"} \X Dirs
  /\ Outcomes \subseteq {"ok", "fails"}
  /\ MaxDrops \in Nat /\ MaxCrashes \in Nat

VARIABLES
  files,      \* files[d][b]: the file of base name b in directory d
  table,      \* config_name of each managed VF
  pc,         \* where the request loop is
  req,        \* the request it works on: [op, dir, base, vf, ok]
  toLoad,     \* files vfd_add_all_vfs has listed and not read yet
  told,       \* what the last answer said of each VF
  refused,    \* history: VFs whose file a restart has refused since they were added
  drops,      \* files dropped so far
  crashes     \* crashes so far

fileVars == <<files, table, pc, req, toLoad, told, refused, drops, crashes>>

Readable(f) == f \in Contents
FileOf(d, b) == files[d][b]
Put(d, b, f) == files' = [files EXCEPT ![d][b] = f]
Goto(label) == pc' = label

FilesInit ==
  /\ files = [d \in Dirs |-> [b \in Names |-> NoFile]]
  /\ table = [v \in VfIds |-> NoOwner]
  /\ pc = "idle"
  /\ req \in {[op |-> "none", dir |-> "conf", base |-> b, vf |-> v, ok |-> FALSE] :
                b \in {CHOOSE b \in Names : TRUE}, v \in {CHOOSE v \in VfIds : TRUE}}
  /\ toLoad = {}
  /\ told = [v \in VfIds |-> "unknown"]
  /\ refused = {}
  /\ drops = 0
  /\ crashes = 0

\* The virtualisation manager (external) writes a file, though not while VFd works on
\* a request for that file.
Drop(b, f) ==
  /\ drops < MaxDrops
  /\ pc \in {"idle", "down"} \/ b # req.base
  /\ Readable(f) => f.vf \in VfsOf[b]
  /\ Put("conf", b, f)
  /\ drops' = drops + 1
  /\ UNCHANGED <<table, pc, req, toLoad, told, refused, crashes>>

(***************************************************************************)
(* An add request.                                                         *)
(***************************************************************************)

\* vfd_add_vf takes the file; the mutant has no duplicate test.
AddAcceptedTwice(d, b) ==
  /\ pc = "idle" /\ <<"add", d>> \in Paths
  /\ Readable(FileOf(d, b))
  /\ LET f == FileOf(d, b) IN
       /\ table' = [table EXCEPT ![f.vf] = f.owner]
       /\ told' = [told EXCEPT ![f.vf] = "unknown"]
       /\ refused' = refused \ {f.vf}
       /\ req' = [op |-> "add", dir |-> d, base |-> b, vf |-> f.vf, ok |-> TRUE]
  /\ Goto("copy")
  /\ UNCHANGED <<files, toLoad, drops, crashes>>
AddAccepted(d, b) ==
  /\ pc = "idle" /\ <<"add", d>> \in Paths
  /\ Readable(FileOf(d, b))
  /\ LET f == FileOf(d, b) IN
       /\ table[f.vf] = NoOwner
       /\ table' = [table EXCEPT ![f.vf] = f.owner]
       /\ told' = [told EXCEPT ![f.vf] = "unknown"]
       /\ refused' = refused \ {f.vf}
       /\ req' = [op |-> "add", dir |-> d, base |-> b, vf |-> f.vf, ok |-> TRUE]
  /\ Goto("copy")
  /\ UNCHANGED <<files, toLoad, drops, crashes>>

\* vfd_add_vf rejects it: unreadable, VF managed already, or contents that do not
\* pass the vetting.
AddRejected(d, b) ==
  /\ pc = "idle" /\ <<"add", d>> \in Paths
  /\ req' = [op |-> "add", dir |-> d, base |-> b, vf |-> req.vf, ok |-> FALSE]
  /\ Goto("aside")
  /\ UNCHANGED <<files, table, toLoad, told, refused, drops, crashes>>

\* relocate_vf_config with no suffix: cp_file truncates the target ...
CopyOpen ==
  /\ pc = "copy"
  /\ \E r \in Outcomes :
       IF r = "ok" THEN Put("live", req.base, Broken) /\ Goto("write")
       ELSE Goto("answer") /\ UNCHANGED files
  /\ UNCHANGED <<table, req, toLoad, told, refused, drops, crashes>>

\* ... writes what it reads from the source, which may be the same file.  Of a read
\* or write that fails it takes no notice; when the close fails it gives up ...
CopyWrite ==
  /\ pc = "write"
  /\ \/ /\ "ok" \in Outcomes
        /\ Put("live", req.base, FileOf(req.dir, req.base))
        /\ Goto("unlink")
     \/ /\ "fails" \in Outcomes
        /\ \E label \in {"unlink", "answer"} : Goto(label)
        /\ UNCHANGED files
  /\ UNCHANGED <<table, req, toLoad, told, refused, drops, crashes>>

\* ... and unlinks the source.
CopyUnlink ==
  /\ pc = "unlink"
  /\ \E r \in Outcomes :
       IF r = "ok" THEN Put(req.dir, req.base, NoFile) ELSE UNCHANGED files
  /\ Goto("answer")
  /\ UNCHANGED <<table, req, toLoad, told, refused, drops, crashes>>

\* relocate_vf_config with ".error"; the mutant takes the file of the live directory.
AsideFromLive ==
  /\ pc = "aside"
  /\ Put("live", req.base, NoFile)
  /\ Goto("answer")
  /\ UNCHANGED <<table, req, toLoad, told, refused, drops, crashes>>
Aside ==
  /\ pc = "aside"
  /\ \E r \in Outcomes :
       IF r = "ok" THEN Put(req.dir, req.base, NoFile) ELSE UNCHANGED files
  /\ Goto("answer")
  /\ UNCHANGED <<table, req, toLoad, told, refused, drops, crashes>>

\* vfd_update_nic, which always succeeds, and vfd_response.
Answer ==
  /\ pc = "answer"
  /\ told' = IF ~req.ok THEN told
             ELSE [told EXCEPT ![req.vf] = IF req.op = "add" THEN "added" ELSE "deleted"]
  /\ Goto("idle")
  /\ UNCHANGED <<files, table, req, toLoad, refused, drops, crashes>>

(***************************************************************************)
(* A delete request.                                                       *)
(***************************************************************************)

\* The file cannot be read, or has another name than the one the VF was added with:
\* nothing is touched.
DelUntouched(d, b) ==
  /\ pc = "idle" /\ <<"del", d>> \in Paths
  /\ LET f == FileOf(d, b) IN
       Readable(f) => table[f.vf] \notin {f.owner, NoOwner}
  /\ req' = [op |-> "del", dir |-> d, base |-> b, vf |-> req.vf, ok |-> FALSE]
  /\ Goto("answer")
  /\ UNCHANGED <<files, table, toLoad, told, refused, drops, crashes>>

\* The file is good for a delete; when the VF is not managed only the file goes.
DelFound(d, b) ==
  /\ pc = "idle" /\ <<"del", d>> \in Paths
  /\ Readable(FileOf(d, b))
  /\ LET f == FileOf(d, b) IN
       /\ table[f.vf] \in {f.owner, NoOwner}
       /\ req' = [op |-> "del", dir |-> d, base |-> b, vf |-> f.vf, ok |-> table[f.vf] # NoOwner]
       /\ told' = IF table[f.vf] = NoOwner THEN told ELSE [told EXCEPT ![f.vf] = "unknown"]
  /\ Goto("remove")
  /\ UNCHANGED <<files, table, toLoad, refused, drops, crashes>>

\* delete_vf_config removes or renames the file, or logs that it could not.
DelRemove ==
  /\ pc = "remove"
  /\ \E r \in Outcomes :
       IF r = "ok" THEN Put(req.dir, req.base, NoFile) ELSE UNCHANGED files
  /\ Goto(IF req.ok THEN "mark" ELSE "answer")
  /\ UNCHANGED <<table, req, toLoad, told, refused, drops, crashes>>

\* The VF is deleted from the table; in the mutant the mark is lost.
DelMarkLost ==
  /\ pc = "mark"
  /\ Goto("answer")
  /\ UNCHANGED <<files, table, req, toLoad, told, refused, drops, crashes>>
DelMark ==
  /\ pc = "mark"
  /\ table' = [table EXCEPT ![req.vf] = NoOwner]
  /\ Goto("answer")
  /\ UNCHANGED <<files, req, toLoad, told, refused, drops, crashes>>

(***************************************************************************)
(* Crash and restart.                                                      *)
(***************************************************************************)

Crash ==
  /\ pc # "down" /\ crashes < MaxCrashes
  /\ table' = [v \in VfIds |-> NoOwner]
  /\ toLoad' = {}
  /\ crashes' = crashes + 1
  /\ Goto("down")
  /\ UNCHANGED <<files, req, told, refused, drops>>

\* vfd_add_all_vfs lists the live directory ...
Start ==
  /\ pc = "down"
  /\ toLoad' = {b \in Names : FileOf("live", b) # NoFile}
  /\ Goto("boot")
  /\ UNCHANGED <<files, table, req, told, refused, drops, crashes>>

\* ... and adds one file after another, in the order of the directory.  Each passes
\* through all the vetting of vfd_add_vf again; one that is rejected, because it cannot
\* be read, its VF is there already or the vetting finds fault, is moved away.
BootFile(b) ==
  /\ pc = "boot" /\ b \in toLoad
  /\ toLoad' = toLoad \ {b}
  /\ LET f   == FileOf("live", b)
         new == Readable(f) /\ table[f.vf] = NoOwner
     IN \/ /\ new
           /\ table' = [table EXCEPT ![f.vf] = f.owner]
           /\ UNCHANGED <<files, refused>>
        \/ /\ \E r \in Outcomes :
                IF r = "ok" THEN Put("live", b, NoFile) ELSE UNCHANGED files
           /\ refused' = IF new THEN refused \cup {f.vf} ELSE refused
           /\ UNCHANGED table
  /\ UNCHANGED <<pc, req, told, drops, crashes>>

\* The list is through.
BootDone ==
  /\ pc = "boot" /\ toLoad = {}
  /\ Goto("idle")
  /\ UNCHANGED <<files, table, req, toLoad, told, refused, drops, crashes>>

FilesNext ==
  \/ \E b \in Names :
       \/ \E f \in Contents \cup {Broken} : Drop(b, f)
       \/ \E d \in Dirs :
            AddAccepted(d, b) \/ AddRejected(d, b) \/ DelUntouched(d, b) \/ DelFound(d, b)
       \/ BootFile(b)
  \/ CopyOpen \/ CopyWrite \/ CopyUnlink \/ Aside \/ Answer
  \/ DelRemove \/ DelMark
  \/ Crash \/ Start \/ BootDone

FilesSpec == FilesInit /\ [][FilesNext]_fileVars

(***************************************************************************)
(* Properties.                                                             *)
(***************************************************************************)

\* What the last answer said of a VF is still so, through any crash and restart, unless
\* the vetting of a restart has refused the file of a VF that was added.
AnswerSurvives ==
  pc = "idle" => \A v \in VfIds :
    /\ told[v] = "added" /\ v \notin refused => table[v] # NoOwner
    /\ told[v] = "deleted" => table[v] = NoOwner

\* Whatever VFd is doing, and should it die now: the file of a VF reported as added
\* is whole and in the live directory, unless a restart has refused it.
NeverLost ==
  \A v \in VfIds : told[v] = "added" /\ v \notin refused =>
    \E b \in Names : Readable(FileOf("live", b)) /\ FileOf("live", b).vf = v

\* Between requests the live directory is the table: each file in it is that of a
\* managed VF, and each managed VF has exactly one.
LiveMatchesTable ==
  pc = "idle" =>
    /\ \A b \in Names : FileOf("live", b) # NoFile =>
         Readable(FileOf("live", b)) /\ table[FileOf("live", b).vf] = FileOf("live", b).owner
    /\ \A v \in VfIds : table[v] # NoOwner =>
         Cardinality({b \in Names : Readable(FileOf("live", b)) /\ FileOf("live", b).vf = v}) = 1
=============================================================================
