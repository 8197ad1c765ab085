------------------------------ MODULE MCLockedFile ------------------------------
(* LockedFile for TLC: three contending processes and one inode more than   *)
(* there are handles, so that creating the lock file never lacks an inode.  *)
EXTENDS LockedFile
================================================================================
