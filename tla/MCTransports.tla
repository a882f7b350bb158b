--------------------------- MODULE MCTransports ---------------------------
(* A connection, a connection or a line, and a line for the MCP server.    *)
EXTENDS Transports

CONSTANTS r1, r2, r3

MCRequest == {r1, r2, r3}
MCServers == [r \in MCRequest |-> IF r = r1 THEN {"unix", "http"}
                                  ELSE IF r = r2 THEN {"http", "mcp"}
                                  ELSE {"mcp"}]
=============================================================================
