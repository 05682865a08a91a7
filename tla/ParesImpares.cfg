SPECIFICATION Spec
CONSTANT LargoCadena = 32
INVARIANTS TypeOK CargaAcotada Subcadenas
