--------------------------- MODULE MCStudentBench ---------------------------
EXTENDS StudentBench

BenchBuses == DOMAIN AgentCfg
BenchPorts == BenchBuses \cup {Producer}

=============================================================================
