------------------------------ MODULE MCServer ------------------------------
EXTENDS Server, TLC

TwoWorkers == 0..1

OneOrTwo == 1..2

\* A pipelined push and pull beside another client's checkpoint; and alone, a
\* streaming pull with a ping behind it, more requests behind a pull than the
\* receive buffer holds, and something that is no request.
TwoClients == {<< <<"push", "pull">>, <<"save">> >>,
               << <<"stream", "ping">>, <<>> >>,
               << <<"pull", "ping", "ping", "ping">>, <<>> >>,
               << <<"pull", "junk">>, <<>> >>}

\* Two connections go to two workers: one slot each is enough.
MCInit == Init /\ (readonly => slots = 1)

MCSpec == MCInit /\ [][Next]_vars /\ Fairness
=============================================================================
