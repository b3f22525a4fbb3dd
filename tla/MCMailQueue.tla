---------------------------- MODULE MCMailQueue ----------------------------
EXTENDS MailQueue
CONSTANTS p1, p2
TheProducers == {p1, p2}
=============================================================================
