------------------------------ MODULE MCNetdb ------------------------------
(***************************************************************************)
(* Small database files: entries, lines that are given up half way, and a  *)
(* name that is another entry's alias.                                     *)
(***************************************************************************)
EXTENDS Netdb

W(form, text) == [form |-> form, text |-> text]
N(text) == W("name", text)
Port(number, proto) == [form |-> "port", text |-> number, proto |-> proto]
Comment == <<W("comment", "x")>>

MCFile == [
  services |-> << Comment, <<N("a"), N("b"), Port("1", "tcp")>>, <<N("c")>>,
                  <<N("b"), Port("2", "udp"), N("c")>>, <<>>,
                  <<N("c"), N("a"), N("b"), Port("1", "udp")>> >>,
  hosts |-> << <<W("addr", "1"), N("a"), N("b")>>, <<W("addr", "2")>>,
               <<N("c"), N("a")>>, <<W("addr", "1"), N("c")>> >>,
  networks |-> << <<N("a"), N("b"), N("c"), W("addr", "1")>>, <<N("b")>>,
                  <<N("c"), W("dotted", "2")>>, Comment,
                  <<N("b"), W("digits", "1")>> >>,
  protocols |-> << <<N("a"), W("digits", "1"), N("b")>>, <<N("c"), N("b")>>,
                   <<N("b"), N("c"), W("digits", "2")>> >> ]
=============================================================================
