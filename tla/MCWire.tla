------------------------------- MODULE MCWire -------------------------------
(* An instance of Wire for TLC. *)
EXTENDS Wire

(* No payload, short ones (one of them palindromic), the limit and the next *)
(* length after it, and lengths that are over the limit only when reversed. *)
Lengths == {<<0, 0, 0, 0>>, <<0, 0, 0, 1>>, <<0, 0, 0, 2>>, <<0, 1, 1, 0>>,
            <<0, 0, 1, 2>>, <<1, 0, 0, 0>>, <<1, 0, 0, 1>>, <<2, 0, 0, 0>>}

=============================================================================
