-------------------------------- MODULE MCFs --------------------------------
EXTENDS Fs

MCPaths == {<<"a">>, <<"b">>, <<"b", "a">>}
=============================================================================
