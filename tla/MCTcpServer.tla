---------------------------- MODULE MCTcpServer ----------------------------
(* TcpServer for TLC; the configurations give the constants their values.  *)
EXTENDS TcpServer, TLC

MCSymmetry == Permutations(Conns) \cup Permutations(Fds \ {ListenFd})
=============================================================================
