------------------------------ MODULE MCSession ------------------------------
(* Session for TLC: two repositories, one change and two actions are enough *)
(* for an opening within another, and for a cached answer to be old.        *)
EXTENDS Session

CONSTANTS a, b

MCRepos == {a, b}

MCAtStart == {a, None}

===============================================================================
