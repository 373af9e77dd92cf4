----------------------------- MODULE MCMessages -----------------------------
(***************************************************************************)
(* An instance of Messages: a sender S, a contract A with code and money,  *)
(* the addresses M and N of what S and A create, and the miner C, who has  *)
(* no account yet.  The address A creates at may hold money or a contract. *)
(***************************************************************************)
EXTENDS Messages

Fresh(creator, nonce) ==
  CASE creator = "S" -> "M"
    [] creator = "A" /\ nonce = 1 -> "N"
    [] OTHER -> "none"

Account(nonce, balance, code) ==
  [present |-> TRUE, nonce |-> nonce, balance |-> balance, code |-> code, storage |-> [k \in Key |-> 1]]

Trie(n) ==
  [a \in Address |-> CASE a = "S" -> Account(0, 7, NoCode)
                       [] a = "A" -> Account(1, 1, "code")
                       [] a = "N" -> n
                       [] OTHER -> Stored]

Dragon == {"homestead", "anti_dos", "spurious_dragon"}
AllStarts ==
  {<<Trie(Account(0, 1, NoCode)), {}>>,
   <<Trie(Stored), Dragon>>,
   <<Trie(Account(1, 0, "code")), Dragon \union {"metropolis"}>>}

Two ==
  <<{[to |-> "A", value |-> 1, gas |-> 3], [to |-> CREATE, value |-> 0, gas |-> 3]},
    {[to |-> "A", value |-> 0, gas |-> 1]}>>
=============================================================================
