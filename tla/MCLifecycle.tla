---------------------------- MODULE MCLifecycle ----------------------------
(* Small instances of Lifecycle: the kinds of hook main.rs registers. *)
EXTENDS Lifecycle

Plain(need) == [need |-> need, phase |-> "Automatic",
                skip_on_restart |-> FALSE, continue_after_timeout |-> FALSE]

\* walk/automatic-scheduler: its join may time out without consequences.
Scheduler == [Plain("None") EXCEPT !.continue_after_timeout = TRUE]
\* ui/dashboard
Dashboard == [Plain("None") EXCEPT !.phase = "After"]
\* Persists something optional: skipped on a restart, harmless when it times out.
Optional  == [Plain("Storage") EXCEPT !.skip_on_restart = TRUE, !.continue_after_timeout = TRUE]

\* A tier that stop() may skip and whose timeout blocks the later ones, and a later
\* hook with both exceptions.
MixedSpecs == {Plain("Network"), Optional}

\* For questions about a single hook.
CoreSpecs == {Scheduler, Plain("VeilidNode"), Dashboard}

============================================================================
