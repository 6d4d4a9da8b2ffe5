---------------------------- MODULE MCBffLogin ----------------------------
(* Two browsers and three logins over a store of two.  Browsers are alike, *)
(* and so are logins: a value of Logins only names what was drawn for it.  *)
EXTENDS BffLogin, TLC

Symmetry == Permutations(Browsers) \cup Permutations(Logins)
=============================================================================
