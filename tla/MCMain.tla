------------------------------- MODULE MCMain -------------------------------
(* Command lines for checking Main. *)
EXTENDS Main

Plain == [show |-> FALSE, target |-> FALSE, libssh2 |-> FALSE, executor |-> FALSE,
          getter |-> FALSE, chroot |-> FALSE, hwtarget |-> FALSE, bothModes |-> FALSE,
          input |-> "there", filter |-> "none", validateOnly |-> FALSE,
          output |-> TRUE, noHwinfo |-> FALSE, ci |-> FALSE]

\* Every combination of the options that say where to run.
Where == {c \in CommandLine :
            /\ <<c.bothModes, c.input, c.filter, c.validateOnly, c.output>>
                 = <<FALSE, "there", "none", FALSE, TRUE>>
            /\ ~c.show /\ ~c.noHwinfo}

\* Every combination of the others, on the host and with -t and -i.
How == {c \in CommandLine :
          <<c.target, c.hwtarget, c.libssh2, c.executor, c.getter, c.chroot>>
            \in {<<t, t, FALSE, FALSE, FALSE, FALSE>> : t \in BOOLEAN}}

MCCommandLines == Where \union How
=============================================================================
