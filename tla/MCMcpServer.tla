---- MODULE MCMcpServer ----
EXTENDS McpServer

CONSTANTS k1, k2
====
