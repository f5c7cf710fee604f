------------------------------ MODULE MCApbUvc ------------------------------
EXTENDS ApbUvc

UvcClients == {"producer_1", "producer_2", "consumer_1"}

UvcPortOf ==
  [c \in UvcClients |-> IF c = "consumer_1" THEN "consumer" ELSE "producer"]

Items(W, D, S, E) ==
  [we : W, addr : {0}, data : D, strb : S, slverr : E]

UvcItemsOf ==
  [p \in {"producer", "consumer"} |->
     IF p = "producer"
     THEN Items({TRUE}, {1}, BOOLEAN, {FALSE})
            \cup Items({FALSE}, {0}, {FALSE}, {FALSE})
     ELSE Items({FALSE}, {0}, {FALSE}, {FALSE})
            \cup Items({FALSE}, {1}, {FALSE}, {TRUE})]

============================================================================
