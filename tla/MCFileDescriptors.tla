------------------------- MODULE MCFileDescriptors -------------------------
(* The console and a second device whose driver may refuse; two file systems, *)
(* the name of one the beginning of the other's.  Two descriptors besides     *)
(* the streams.                                                               *)
EXTENDS FileDescriptors

CONSTANTS jtag, lcd, fs, ffs

MCName ==
  [d \in {jtag, lcd, fs, ffs, dev_null} |->
     CASE d = jtag -> <<"/", "j">> [] d = lcd -> <<"/", "l">>
       [] d = fs -> <<"/", "f">> [] d = ffs -> <<"/", "f", "f">>
       [] d = dev_null -> <<"/", "n">>]

MCPaths == {<<"/", "j">>, <<"/", "l">>, <<"/", "n">>, <<"/", "j", "x">>,
            <<"/", "f">>, <<"/", "f", "f">>, <<"/", "f", "/", "x">>, <<"/", "f", "x">>}

MCStdout == <<"/", "j">>
MCStderr == <<"/", "l">>
=============================================================================
