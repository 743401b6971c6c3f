------------------------------ MODULE MCTools ------------------------------
(* The tools for TLC. *)
EXTENDS Tools

\* A control value of two bytes and a negative offset.
MCConfig == <<DefaultConfig[1], DefaultConfig[15]>>

\* One command among lines that send none.
MCPreludes ==
  { << [kind |-> "M", pkt |-> Build(0, <<>>)], [kind |-> "O", pkt |-> Build(4, <<16, 0, 133>>)],
       [kind |-> "bad", pkt |-> Build(0, <<>>)] >> }

\* The first command of the handshake, and a write of another control value.
MCRawPackets == {Build(4, <<16, 0, 133>>), BuildWrite(Write(130, 0, 353))}

\* Two stages, as the captured script has, and a script with a mangled line.
MCFwScripts ==
  << << [op |-> "hold", at |-> 0], [op |-> "write", at |-> 1], [op |-> "release", at |-> 0],
        [op |-> "write", at |-> 2], [op |-> "hold", at |-> 0], [op |-> "write", at |-> 1],
        [op |-> "release", at |-> 0] >>,
     << [op |-> "comment", at |-> 0], [op |-> "hold", at |-> 0], [op |-> "write", at |-> 1],
        [op |-> "bad", at |-> 2], [op |-> "release", at |-> 0] >> >>

=============================================================================
