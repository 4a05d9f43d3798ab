----------------------------- MODULE FlowConfigMC -----------------------------
(* Small instances of FlowConfig for TLC.                                  *)
EXTENDS FlowConfig, TLC

CONSTANTS eth1, eth10, eth2, eth9, chrome, miui, toolong

Item(id, type, name) == [tag |-> "Item", ok |-> TRUE, id |-> id, type |-> type, name |-> name]
Key(id, text)        == [tag |-> "UAKey", ok |-> TRUE, id |-> id, text |-> text]
Scan(number, ms)     == [tag |-> "DDOS", ok |-> NULL \notin {number, ms},
                         number |-> number, ms |-> ms]
Comment              == [tag |-> "comment"]
Part(tag, children)  == [tag |-> tag, children |-> children]

(* Ids 1 and 3 share a slot when there are two of them.                    *)
SomeItems == {Item(1, "rx", eth1), Item(1, "tx", eth2), Item(3, "tx", eth1),
              Item(3, "tx", eth9), Comment,
              [Item(2, "tx", eth2) EXCEPT !.ok = FALSE]}
SomeKeys  == {Key(1, chrome), Key(3, chrome), Key(3, miui), Key(3, Empty), Key(3, toolong),
              [Key(1, miui) EXCEPT !.ok = FALSE]}
Upto(S, n) == UNION {[1..k -> S] : k \in 0..n}

(* The documents: the three sections of UAFlow.conf.                       *)
Conf(is, ks, ss) ==
  Part("UAFlow", <<Part("Capmode", is), Part("Flow", ks), Part("Scan", ss)>>)

AsUtf8 == [e \in Encodings |-> "root"]

Written(roots, tight) ==
  [exists : {TRUE}, reads : {AsUtf8}, root : roots, tight : tight]

(* Files loaded with memory to spare; shorter ones without it; settings in *)
(* one element or, as UAFlow.conf writes them, in two; a section twice, a  *)
(* root of another name; a file that is missing, or read in other ways.    *)
MCFiles ==
  LET plain == <<Item(1, "rx", eth1), Item(3, "tx", eth2)>> IN
  Written({Conf(is, ks, << >>) : is \in Upto(SomeItems, 3), ks \in Upto(SomeKeys, 2)}, {FALSE})
  \cup
  Written({Conf(is, ks, << >>) : is \in Upto(SomeItems, 2), ks \in Upto(SomeKeys, 2)}, {TRUE})
  \cup
  Written({Conf(plain, << >>, ss) :
             ss \in {<<Scan(7, 8)>>, <<Comment, Scan(NULL, 8), Scan(7, NULL)>>}}, BOOLEAN)
  \cup
  Written({Part("UAFlow", <<Part("Capmode", plain), Part("Flow", << >>), Part("Capmode", is),
                            Part("Flow", <<Key(3, miui)>>)>>) : is \in Upto(SomeItems, 1)}
          \cup {Part("uaflow", <<Part("Capmode", plain)>>), Part("UAFlow", << >>)}, {FALSE})
  \cup
  [exists : BOOLEAN, reads : [Encodings -> Readings],
   root : {Conf(plain, <<Key(3, miui)>>, << >>)}, tight : {FALSE}]

TooLong  == {toolong}
(* eth1 is a prefix of eth10, whose port comes first; no rule names eth9.  *)
MCRules  == 0 :> {eth10} @@ 1 :> {eth2} @@ 2 :> {eth1}
Begins   == eth1 :> {eth1, eth10} @@ eth10 :> {eth10} @@ eth2 :> {eth2} @@ eth9 :> {eth9}
===============================================================================
