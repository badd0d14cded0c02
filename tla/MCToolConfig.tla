------------------------------ MODULE MCToolConfig ------------------------------
EXTENDS ToolConfig

\* Batches of one item, of one for each key, and of two for one key; some leave a
\* limit out, two are refused whatever is stored.
MCBatches ==
    {[global |-> <<v>>] : v \in {0, 1}} \cup {[perTool |-> <<v>>] : v \in {1, 2}}
    \cup {[global |-> <<g>>, perTool |-> <<v>>] : g \in {1, Omitted}, v \in {Omitted, 2}}
    \cup {[global |-> <<0, 2>>], [global |-> <<2, Omitted>>], [perTool |-> <<2, Omitted>>],
          [perTool |-> <<1, 2>>], [perTool |-> <<2, 1>>]}
=============================================================================
