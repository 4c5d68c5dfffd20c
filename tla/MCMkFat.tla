-------------------------------- MODULE MCMkFat --------------------------------
(***************************************************************************)
(* MkFat with sectors of 16 bytes, which hold eight FAT entries or four    *)
(* directory entries.                                                      *)
(***************************************************************************)
EXTENDS MkFat

File(p, n) == [path |-> p, size |-> n]

\* A directory with three files needs two clusters; so does a root of five.
Paths ==
    {<<"A">>, <<"B">>, <<"D", "A">>, <<"D", "B">>, <<"D", "C">>,
     <<"D", "E", "A">>, <<"F", "E", "A">>}
FileSizes == {0, 16, 33}

Distinct(ps) == \A j, k \in DOMAIN ps : ps[j] = ps[k] => j = k

\* Up to three files in every order, and what the tool refuses.
MCMappings ==
    {m \in UNION {[1 .. n -> [path : Paths, size : FileSizes]] : n \in 0 .. 3} :
       Distinct([k \in DOMAIN m |-> m[k].path])}
    \union {<<File(<<"A">>, 5), File(<<"D", "long">>, 5)>>,
            <<File(<<"A">>, 1), File(<<"B">>, 1), File(<<"C">>, 1),
              File(<<"D">>, 1), File(<<"E">>, 1)>>}

================================================================================
