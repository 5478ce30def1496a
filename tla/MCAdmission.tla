---------------------------- MODULE MCAdmission ----------------------------
(* Instances of Admission for model checking.                              *)
EXTENDS Admission

\* A server with a password and one with a hook.
PasswordAndHook ==
    {[allowAnonymous |-> FALSE, password |-> ~h, keyFiles |-> FALSE, keys |-> FALSE,
      hook |-> h, strict |-> FALSE, allow |-> {}, osUser |-> NoUser] : h \in BOOLEAN}
=============================================================================
