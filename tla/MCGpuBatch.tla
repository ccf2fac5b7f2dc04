------------------------------ MODULE MCGpuBatch ------------------------------
(* GpuBatch on every block of up to four statements whose operands are the    *)
(* input or an earlier result.                                                *)
EXTENDS GpuBatch

Statements(i, sizes) ==
    [kind : {"batched", "inline", "other"}, a : 0..(i - 1), w : {<<"v", "w">>[((i - 1) % 2) + 1]},
     xs : sizes, ys : sizes]

\* Slices of one and three bytes: the scratch of four fits two and grows for the rest.
UpToFour ==
    {<<s1, s2, s3, s4>> : s1 \in Statements(1, {3}), s2 \in Statements(2, {1}),
                          s3 \in Statements(3, {1, 3}), s4 \in Statements(4, {1})}

Fingerprints == [w \in {"v", "w"} |-> IF w = "v" THEN 1 ELSE 2]
===============================================================================
