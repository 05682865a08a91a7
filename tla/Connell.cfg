SPECIFICATION Spec
CONSTANT WordSize = 64
INVARIANTS TypeOK PrefijoConnell
PROPERTIES ImplementaAbstracto PasosAcotados
