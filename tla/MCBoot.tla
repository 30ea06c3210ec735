---------------------------------- MODULE MCBoot ---------------------------------
(* TLC instances of Boot: what is typed into the form, and one access point. *)
EXTENDS Boot

T(l, b, w) == [len |-> l, bad |-> b, width |-> w]
Sent(t)    == [text |-> t, decodes |-> TRUE]
Filled(s, p, h, k) ==
  [fields |-> [ssid |-> s, pass |-> p, host |-> h, token |-> k], size |-> 200]

Plain == Filled(Sent(T(8, 0, 1)), Sent(T(10, 0, 1)), Sent(T(16, 0, 1)), Sent(T(20, 0, 1)))
\* Every text as long as it may be, every character escaped; one more is cut off.
Longest == Filled(Sent(T(32, 0, 6)), Sent(T(64, 0, 6)), Sent(T(63, 0, 1)), Sent(T(64, 0, 6)))
TooLong == [Plain EXCEPT !.fields.token.text = T(70, 66, 1)]
\* A space in the token; a password with a lone per cent sign; a body beyond the limit.
Rejected  == [Plain EXCEPT !.fields.token.text = T(20, 3, 1)]
Malformed == [Plain EXCEPT !.fields.pass.decodes = FALSE]
Huge      == [Plain EXCEPT !.size = MaxFormBody + 1]

Typed    == {Plain, Longest, TooLong, Rejected, Malformed, Huge}
HomeOnly == {StaConfig(Parsed(Plain))}
===============================================================================
