------------------------------- MODULE MCBoot -------------------------------
(***************************************************************************)
(* Three images that boot, one of them with nothing in it, and one image   *)
(* for every way in which a boot is refused, with MaxNodes = MaxEdges = 2. *)
(***************************************************************************)
EXTENDS Boot

Wire(edges, quotas) ==
    [long |-> TRUE, signed |-> TRUE, formed |-> TRUE,
     edges |-> edges, quotas |-> quotas]

Plain == Wire(<< <<1, 2>> >>, << <<1, 3>>, <<5, 1>> >>)

MCWires ==
    {Plain, Wire(<< >>, << >>), Wire(<< <<1, 2>>, <<2, 2>> >>, << >>)}
      \cup {[Plain EXCEPT !.long = FALSE], [Plain EXCEPT !.signed = FALSE],
            [Plain EXCEPT !.formed = FALSE]}
      \cup {Wire(<< <<0, 1>> >>, << >>), Wire(<< <<1, 3>> >>, << >>),
            Wire(<< <<1, 1>>, <<1, 2>>, <<2, 1>> >>, << >>),
            Wire(<< >>, << <<1, 3>>, <<1, 2>> >>), Wire(<< >>, << <<0, 1>> >>),
            Wire(<< >>, << <<1, 1>>, <<2, 1>>, <<3, 1>> >>)}

\* SHA-256 as the term it was computed from: equal only for equal inputs.
MCHash(parts) == <<"sha256", parts>>
MCZeroPcr == <<"zero">>
MCNullQuote == << <<"zero">>, <<"zero">> >>
=============================================================================
