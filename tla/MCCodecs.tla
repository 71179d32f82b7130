------------------------------ MODULE MCCodecs ------------------------------
(* Codecs with air and two blocks; sand has a state that is a byte, though *)
(* its name does not end in "_bit".                                        *)
EXTENDS Codecs

AirAndTwo ==
    (0 :> [name |-> AIR, states |-> <<>>])
    @@ (1 :> [name |-> <<1>>, states |-> <<TypedField(<<5>>, T(TAG_STRING, [s |-> <<2>>])),
                                           TypedField(<<5, Bit>>, T(TAG_BYTE, [n |-> 1]))>>])
    @@ (2 :> [name |-> <<2>>, states |-> <<TypedField(<<5>>, T(TAG_BYTE, [n |-> 1]))>>])
=============================================================================
