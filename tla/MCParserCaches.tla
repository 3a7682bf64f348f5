--------------------------- MODULE MCParserCaches ---------------------------
(* One object file.  Its path is a sequence, which a cfg cannot write.      *)
EXTENDS ParserCaches

MCPaths == { <<"vmlinux">> }
=============================================================================
