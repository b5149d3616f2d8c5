------------------------------- MODULE CibFile -------------------------------
(***************************************************************************)
(* The files in which a CIB manager keeps its CIB (lib/cib/cib_file.c and  *)
(* daemons/based/based_io.c): cib.xml, the digest cib.xml.sig, and a       *)
(* series of backups, each with its digest.  A digest is modelled by the   *)
(* CIB it was calculated from.                                             *)
(*                                                                         *)
(*   cib, sig   the two files, NoFile if there is none                     *)
(*   backup     the backups, with the change time of the inode             *)
(*   next       the number in cib.last                                     *)
(*                                                                         *)
(* File operations take effect in the order in which they are called.      *)
(***************************************************************************)
EXTENDS Naturals

CONSTANTS
  NoFile,
  Series      \* CIB_SERIES_MAX

ASSUME SeriesAssumption == Series \in Nat \ {0}

EmptyCib ==
  [admin |-> 0, epoch |-> 0, updates |-> 0, config |-> 0, status |-> 0, schema |-> 2]

CibType ==
  [admin : Nat, epoch : Nat, updates : Nat, config : Nat, status : Nat, schema : {1, EmptyCib.schema}]

NoBackup == [cib |-> NoFile, sig |-> NoFile, ctime |-> 0]

Backup == [cib : CibType \cup {NoFile}, sig : CibType \cup {NoFile}, ctime : Nat]

Disk ==
  [cib : CibType \cup {NoFile}, sig : CibType \cup {NoFile}, backup : [0..Series - 1 -> Backup],
   next : 0..Series - 1]

NoDisk ==
  [cib |-> NoFile, sig |-> NoFile, backup |-> [i \in 0..Series - 1 |-> NoBackup], next |-> 0]

(* prepare_xml(): the status and the number of updates are not saved. *)
OnDisk(c) == [c EXCEPT !.updates = 0, !.status = 0]

(* cib_file_read_and_verify(): a missing digest is not an error. *)
Verified(file, sig) == file # NoFile /\ sig \in {NoFile, file}

(* The change time of an inode is set when a name of it is made or removed. *)
Touch(d, file, now) ==
  [d EXCEPT !.backup = [i \in DOMAIN @ |->
     IF file # NoFile /\ @[i].cib = file THEN [@[i] EXCEPT !.ctime = now] ELSE @[i]]]

-----------------------------------------------------------------------------
(* The process that writes the CIB.  Its field step is the next call that  *)
(* changes a file, rc what it will exit with.                              *)
Writer ==
  [step : {"unlink", "link", "link sig", "series", "rename", "rename sig", "exit"}, snap : CibType,
   rc : {0, 1}]

Child(c) == [step |-> "unlink", snap |-> OnDisk(c), rc |-> 0]

To(w, step) == [w EXCEPT !.step = step]
Failed(w) == [w EXCEPT !.step = "exit", !.rc = 1]

(* pcmk__write_series_sequence() *)
NextBackup(d) == (d.next + 1) % Series

(* backup_cib_file() up to the first link *)
Link(d, now) ==
  Touch([d EXCEPT !.backup[d.next] = [NoBackup EXCEPT !.cib = d.cib]], d.cib, now)

(* cib_file_write_with_digest(), with backup_cib_file() *)
Write(d, w, now) ==
  CASE w.step = "unlink" ->
         IF d.cib = NoFile \/ Verified(d.cib, d.sig)
         THEN [disk |-> [d EXCEPT !.backup[d.next] = NoBackup], child |-> To(w, "link")]
         ELSE [disk |-> d, child |-> Failed(w)]
    [] w.step = "link" -> [disk |-> Link(d, now), child |-> To(w, "link sig")]
    [] w.step = "link sig" ->
         [disk |-> [d EXCEPT !.backup[d.next].sig = d.sig], child |-> To(w, "series")]
    [] w.step = "series" ->
         [disk |-> [d EXCEPT !.next = NextBackup(d)], child |-> To(w, "rename")]
    [] w.step = "rename" ->
         [disk |-> Touch([d EXCEPT !.cib = w.snap], d.cib, now), child |-> To(w, "rename sig")]
    [] w.step = "rename sig" ->
         [disk |-> [d EXCEPT !.sig = w.snap], child |-> To(w, "exit")]

(* A call fails.  If it is the first of the two renames the other is still *)
(* done.                                                                   *)
WriteFails(w) ==
  {Failed(w)} \cup (IF w.step = "rename" THEN {[w EXCEPT !.step = "rename sig", !.rc = 1]} ELSE {})

-----------------------------------------------------------------------------
(* Mutant: the backups are sorted the other way round. *)
LeastRecent(d, backups) == {i \in backups : \A j \in backups : d.backup[i].ctime <= d.backup[j].ctime}

(* compare_backup_cibs(), get_backup_cib_ctime(): those that were changed  *)
(* last.  The times have a resolution of a second.                         *)
MostRecent(d, backups) == {i \in backups : \A j \in backups : d.backup[i].ctime >= d.backup[j].ctime}

(* read_backup_cib(): the most recent valid backup, any of several that    *)
(* are equally recent.                                                     *)
ReadBackupCib(d) ==
  LET valid == {i \in DOMAIN d.backup : Verified(d.backup[i].cib, d.backup[i].sig)}
  IN  IF valid = {} THEN {EmptyCib} ELSE {d.backup[i].cib : i \in MostRecent(d, valid)}

(* based_read_cib(): what may be loaded *)
ReadCib(d) == IF Verified(d.cib, d.sig) THEN {d.cib} ELSE ReadBackupCib(d)

(* archive_on_digest_mismatch(): files that do not match are moved away. *)
Archive(d) ==
  IF d.cib # NoFile /\ ~Verified(d.cib, d.sig)
  THEN [d EXCEPT !.cib = NoFile, !.sig = NoFile] ELSE d
=============================================================================
