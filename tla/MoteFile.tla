------------------------------ MODULE MoteFile ------------------------------
(***************************************************************************)
(* mote-build and mote-list: the feed-forward layers of a loaded model     *)
(* become a shared expert and K routed experts per transformer layer       *)
(* (mote_builder.cpp), are written to one file and read back (the MoTE     *)
(* part of loader.h).                                                      *)
(*                                                                         *)
(* A projection is what it is stored as and the terms it holds; a file is  *)
(* the sequence of its fields.                                             *)
(***************************************************************************)
EXTENDS ModelFiles

Projections == <<"gate_proj", "up_proj", "down_proj">>

\* Layer i's projection in memory, by name: the first of find_layer_index.
Dense(model, proj, i) ==
    LET found == {k \in DOMAIN model.layers : model.layers[k].name = <<proj, i>>}
        l == model.layers[CHOOSE k \in found : \A j \in found : k <= j]
    IN  [as |-> l.as, rows |-> l.rows, cols |-> l.cols,
         terms |-> 1 .. l.terms]

\* find_layer_index throws for a layer that is missing.
DenseFound(c, model) ==
    {<<Projections[p], i>> : p \in DOMAIN Projections, i \in 0 .. c.layers - 1}
        \subseteq LayerNames(model)

\* distribute_layer: raw weights are copied, of block terms every expert gets
\* the first set; planes are dealt out by num_terms, which the ALS reader
\* leaves at 0, so that no expert gets any.
Distributed(l) == [l EXCEPT !.terms = @ \cap {1}]

\* The layers of a MoTE model: its name, the shared expert and the routed
\* experts.  The shared projections are renamed after "mote".
MoteLayers(c, model, experts) ==
    [i \in 1 .. c.layers |->
        [name |-> <<"mote", "gate_proj", i - 1>>,
         experts |-> experts,
         shared |-> [p \in 1 .. 3 |-> Dense(model, Projections[p], i - 1)],
         routed |-> [e \in 1 .. experts |->
            [p \in 1 .. 3 |->
                Distributed(Dense(model, Projections[p], i - 1))]],
         router |-> c.hidden * experts]]

-----------------------------------------------------------------------------
(* The file: save_mote_model and load_mote_layers.                         *)

\* serialize_layer_data writes the first set of block terms only.
Serialized(l) == [l EXCEPT !.terms = @ \cap {1}]

\* Mutant: the routed experts are written projection by projection.
LayerFields_ByProjection(ml) ==
    <<ml.name, ml.experts>>
    \o [p \in 1 .. 3 |-> Serialized(ml.shared[p])]
    \o [k \in 1 .. 3 * ml.experts |->
          Serialized(ml.routed[((k - 1) % ml.experts) + 1]
                              [((k - 1) \div ml.experts) + 1])]
    \o <<ml.router>>

\* The fields of a layer, in the order they are written.
LayerFields(ml) ==
    <<ml.name, ml.experts>>
    \o [p \in 1 .. 3 |-> Serialized(ml.shared[p])]
    \o [k \in 1 .. 3 * ml.experts |->
          Serialized(ml.routed[((k - 1) \div 3) + 1][((k - 1) % 3) + 1])]
    \o <<ml.router>>

\* save_mote_model: the experts' number, the layer count and the layers.
MoteFields(experts, list) ==
    LET upTo[k \in 0 .. Len(list)] ==
            IF k = 0 THEN <<experts, Len(list)>>
                     ELSE upTo[k - 1] \o LayerFields(list[k])
    IN  upTo[Len(list)]

\* load_mote_layers reads one layer after the other, each as long as its own
\* number of experts makes it.  The names it gives are derived from the name
\* of the record, which is that of the shared gate_proj.
LayerLen(experts) == 2 + 3 + 3 * experts + 1

ReadLayerAt(file, pos) ==
    LET k == file[pos + 1]
    IN  [name |-> file[pos] \o <<"gate_proj">>,
         experts |-> k,
         shared |-> [p \in 1 .. 3 |-> file[pos + 1 + p]],
         routed |-> [e \in 1 .. k |->
                       [p \in 1 .. 3 |-> file[pos + 4 + 3 * (e - 1) + p]]],
         router |-> file[pos + 5 + 3 * k]]

load_mote_layers(file) ==
    LET from[k \in 1 .. file[2] + 1] ==
            IF k = 1 THEN 3 ELSE from[k - 1] + LayerLen(file[from[k - 1] + 1])
    IN  [k \in 1 .. file[2] |-> ReadLayerAt(file, from[k])]
=============================================================================
