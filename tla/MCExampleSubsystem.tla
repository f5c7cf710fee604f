------------------------ MODULE MCExampleSubsystem ------------------------
EXTENDS ExampleSubsystem

GpioAccesses ==
  {[we |-> FALSE, addr |-> GPIO_R_REG, wdata |-> 0]}
    \cup {[we |-> TRUE, addr |-> a, wdata |-> d] : a \in {0, GPIO_W_REG}, d \in {1, 3}}

===========================================================================
