---------------------------- MODULE MCJailLedger ----------------------------
(* JailLedger with small workloads: two one-shot requests, one beside event *)
(* streams (one more request than permits), a fork of two children, and a   *)
(* fork of one beside a stream.                                             *)
EXTENDS JailLedger

MCWorkloads ==
    {<<Request("run", 1, 0), Request("exec", 0, 0)>>,
     <<Request("exec", 0, 0), Request("stream", 0, 0), Request("stream", 0, 0)>>,
     <<Request("fork", 1, 2)>>,
     <<Request("fork", 0, 1), Request("stream", 0, 0)>>}
=============================================================================
