---------------------------- MODULE MCSentryFlags ----------------------------
(* Instance of SentryFlags for TLC. *)
EXTENDS SentryFlags, TLC

\* A command, a look of the camera under the same semaphore that may write, and
\* a write of the camera under none.
SomeJobs == {"active", "enter_active", "in_long"}
=============================================================================
