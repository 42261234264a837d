---- MODULE MCWin32Server ----
(* Small instances of Win32Server for TLC; the bounds are in the .cfg file. *)
EXTENDS Win32Server
====
