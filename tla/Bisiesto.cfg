SPECIFICATION Spec
CONSTANT WordSize = 4096
INVARIANTS TypeOK CalendarioGregoriano
