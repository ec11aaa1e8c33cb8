----------------------------- MODULE MCWebAccess -----------------------------
(* Two sign-ins, two of the four worker threads, two terminals at a time.    *)
EXTENDS WebAccess
===============================================================================
