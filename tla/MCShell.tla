------------------------------- MODULE MCShell -------------------------------
EXTENDS Shell
MCLines == {
  <<"echo", "|", "cat", "|", "cat">>, <<"echo", "|", "cat", ";", "cat">>, <<"echo", "|", "cat", "&">>,
  <<"echo", "|", "none">>, <<"none", "|", "cat">>, <<"echo", ">", "file", ";", "echo">>,
  <<"cat", "<", "file", "|", "cat">>, <<"echo", "&", "echo">>, <<"echo", ">">> }
\* A command is started while the one before it, at the right of a pipe, reads:
\* with this line and MaxProcs = 8, ClosedIsTrue does not hold.
AmpLines == { <<"echo", "|", "cat", "&", "cat">> }
=============================================================================
